---------------------------- MODULE Spec2Model ----------------------------
(***************************************************************************)
(* A model of gcp-reports (package cmd): the concurrent ingestion of the   *)
(* App Engine tree of a project (reportProject.Ingest and below), the      *)
(* storage ingestion of the backups command and the derived facts          *)
(* computed from the ingested leaves.                                      *)
(*                                                                         *)
(* Go slices are 0-based; sequences here are 1-based, so the loop          *)
(*   for i := len(shortVersions) - 1; i >= 0; i--  { versions[i] }         *)
(* runs here with i from Len(shortVersions) down to 1 and reads            *)
(* versions[i], the same element.                                          *)
(***************************************************************************)
EXTENDS Integers, Sequences, FiniteSets, TLC

(***************************************************************************)
(* Bounds of the model.                                                    *)
(***************************************************************************)
MaxServices == 2
MaxVersions == 2
MaxInstances == 1
MaxLimit == 2
MaxBuckets == 2
MaxObjects == 3

Services == 1..MaxServices
VersionIdx == 1..MaxVersions
\* a version node is identified by its service and its index in the listing
VersionIds == Services \X VersionIdx
Min(a, b) == IF a < b THEN a ELSE b

\* the default of flag within, 24h
DefaultWithin == 24

\* the remote lookups of interface Taker
Lookup(op, s, i) == [op |-> op, s |-> s, i |-> i]
Lookups ==
    {Lookup("ListServices", 0, 0)}
        \cup {Lookup("ListVersions", s, 0) : s \in Services}
        \cup {Lookup("ListVersionInstances", v[1], v[2]) : v \in VersionIds}

VARIABLES
    \* the data source (a Taker) and the configuration: fixed in a behaviour
    appOutcome,     \* GetApplication: "ok", "notfound" (404) or "fail"
    failing,        \* the lookups that return an error
    nServices,      \* number of services ListServices returns
    vlist,          \* vlist[s]: CreateTime of each version ListVersions returns
    icount,         \* icount[v]: number of instances ListVersionInstances returns
    versionLimit,   \* viper.GetInt("versionLimit")
    \* the tree
    application,    \* p.application: NilNode or the application node
    services,       \* app.services: sequence of service ids
    versions,       \* versions[s]: svc.versions, a sequence of version ids
    deployTime,     \* deployTime[v]: version.deployTime
    instances,      \* instances[v]: version.instances, a sequence of instance ids
    \* the units of work
    pPc, pErr,      \* reportProject.Ingest: position and returned error
    aPc, aI, aRecv, aErr,   \* reportApplication.Ingest
    aTokens,        \* the tokens reportApplication.Ingest took from its doneChan
    sPc, sI, sShort, sRecv, sErr,   \* reportService.Ingest of each service
    vPc, vErr,      \* reportVersion.Ingest of each version
    calls,          \* calls[l]: how many times lookup l was issued
    \* the storage side: configuration and data source
    backupKey,      \* the configured backup-label key (flag backup-key)
    within,         \* withinDuration, in hours (flag within)
    now,            \* the wall clock during the run, in hours
    verbose,        \* flag -v
    bucketsErr,     \* ListBuckets fails
    gcpBuckets,     \* the buckets ListBuckets returns
    \* the storage side: the project and the call
    backupBuckets,  \* p.backupBuckets: sequence of bucket nodes
    stPc, stI,      \* position in the storage ingestion and its loop index
    ingestErr,      \* the error the storage ingestion returns
    out,            \* the lines printed, as a set (order left out)
    takerCalls,     \* the ListObjects and ListBackupRuns calls made, in order
    \* the database side: data source, the project and the call
    sqlListErr,     \* ListSQLInstances fails
    gcpInstances,   \* the database instances ListSQLInstances returns
    sqlInstances,   \* p.sqlInstances: sequence of instance nodes
    sqlPc, sqlI,    \* position in IngestSQLInstances and its loop index
    sqlErr,         \* the error IngestSQLInstances returns
    \* the loop of the backups command over the filtered projects
    cloud,          \* cloud[id]: what the data source holds for project id
    ourProjects,    \* the filtered projects, a sequence of project nodes
    runPc, runI,    \* position in the loop and its index
    runLog,         \* the ingestion calls made so far, in order
    storageErr,     \* the variable storageErr of Run
    ingested,       \* what the projects of the finished iterations hold
    stCalls,        \* number of IngestStorage calls made on the project
    \* filterProjects
    fpArgs,         \* its arguments and the two configured label keys
    retProjects,    \* its result
    fpPc,           \* "call" before, "ret" after
    \* one operation of a live Taker (TakerGCP, TakerStorageGCP,
    \* TakerSQLAdminGCP) on top of the remote call it makes
    liveResp,       \* the response of the remote call, NilResponse if it failed
    liveErr,        \* the error of the remote call, "nil" if it succeeded
    liveOp,         \* the operation called, "none" before
    liveRet,        \* what the operation returned, or that it faulted
    livePc,         \* "call" before, "ret" after
    \* reportProject.Display on the ingested tree
    dPc,            \* "idle", "service" in the loop over the services, "done"
    dS,             \* the index in app.services of the service to display
    displayed       \* per displayed service, the range of versions selected

\* a nil pointer to a node
NilNode == [nil |-> TRUE]

takerVars == <<appOutcome, failing, nServices, vlist, icount, versionLimit>>
treeVars == <<application, services, versions, deployTime, instances>>
unitVars == <<pPc, pErr, aPc, aI, aRecv, aErr, aTokens, sPc, sI, sShort, sRecv, sErr, vPc, vErr>>
appVars == <<takerVars, treeVars, unitVars, calls>>
storageData == <<backupKey, within, now, verbose, bucketsErr, gcpBuckets>>
storageVars == <<storageData, backupBuckets, stPc, stI, ingestErr, out, takerCalls>>
sqlData == <<sqlListErr, gcpInstances>>
sqlVars == <<sqlData, sqlInstances, sqlPc, sqlI, sqlErr>>
runVars == <<cloud, ourProjects, runPc, runI, runLog, storageErr, ingested, stCalls>>
filterVars == <<fpArgs, retProjects, fpPc>>
liveVars == <<liveResp, liveErr, liveOp, liveRet, livePc>>
displayVars == <<dPc, dS, displayed>>
\* what the steps of the application tree ingestion leave alone
nonAppVars == <<storageVars, sqlVars, runVars, filterVars, liveVars, displayVars>>
\* what the steps of the storage ingestion leave alone
nonStorageVars == <<appVars, sqlVars, runVars, filterVars, liveVars, displayVars>>
\* what the steps of the database ingestion leave alone, out and takerCalls
\* apart
nonSQLVars ==
    <<appVars, storageData, backupBuckets, stPc, stI, ingestErr, runVars, filterVars,
      liveVars, displayVars>>
vars == <<appVars, storageVars, sqlVars, runVars, filterVars, liveVars, displayVars>>


(***************************************************************************)
(* The data source: what each lookup of the Taker returns.                 *)
(***************************************************************************)
\* Version.CreateTime as the provider sends it: RFC 3339 text, or text that
\* does not parse
CreateTimes == {"garbage", "2017-01-01T00:00:00Z", "2017-01-02T00:00:00Z"}

\* the zero time.Time (year 1), in hours before 2017-01-01T00:00:00Z
ZeroTime == -17672256

\* time.Parse(time.RFC3339, s): the parsed time, in hours since
\* 2017-01-01T00:00:00Z, and the error; a failed parse gives the zero time
ParseTime(s) ==
    CASE s = "2017-01-01T00:00:00Z" -> [time |-> 0, err |-> "nil"]
      [] s = "2017-01-02T00:00:00Z" -> [time |-> 24, err |-> "nil"]
      [] s = "2017-01-02T06:00:00Z" -> [time |-> 30, err |-> "nil"]
      [] s = "2017-01-02T07:00:00Z" -> [time |-> 31, err |-> "nil"]
      [] OTHER -> [time |-> ZeroTime, err |-> "parse"]

\* TakerGCP.GetApplication: any failure of Apps.Get, the 404 of a project with
\* no application included, comes back as the error
GetApplication ==
    CASE appOutcome = "ok" -> [app |-> "app", err |-> "nil"]
      [] appOutcome = "notfound" -> [app |-> "null", err |-> "NotFound"]
      [] OTHER -> [app |-> "null", err |-> "Transport"]

\* Taker.ListServices as reportApplication.Ingest sees it: the listed
\* services, or an error
ListServices ==
    IF Lookup("ListServices", 0, 0) \in failing
    THEN [items |-> <<>>, err |-> "Transport"]
    ELSE [items |-> [k \in 1..nServices |-> k], err |-> "nil"]

ListVersions(s) ==
    IF Lookup("ListVersions", s, 0) \in failing
    THEN [items |-> <<>>, err |-> "Transport"]
    ELSE [items |-> vlist[s], err |-> "nil"]

ListVersionInstances(v) ==
    IF Lookup("ListVersionInstances", v[1], v[2]) \in failing
    THEN [items |-> <<>>, err |-> "Transport"]
    ELSE [items |-> [k \in 1..icount[v] |-> <<v[1], v[2], k>>], err |-> "nil"]

\* the count of the lookups issued: every call of a Taker method counts once
CalledWithRetry(l) == [calls EXCEPT ![l] = @ + (IF l \in failing THEN 2 ELSE 1)]
Called(l) == [calls EXCEPT ![l] = @ + 1]

(***************************************************************************)
(* reportProject.Ingest                                                    *)
(***************************************************************************)
ProjectGet ==
    /\ pPc = "get"
    /\ LET r == GetApplication IN
        IF r.err # "nil"
        THEN /\ pErr' = r.err
             /\ pPc' = "done"
             /\ UNCHANGED <<application, aPc>>
        ELSE /\ application' = [gcpApplication |-> r.app]
             /\ pPc' = "ingest"
             /\ aPc' = "list"
             /\ UNCHANGED pErr
    /\ calls' = Called(Lookup("GetApplication", 0, 0))
    /\ UNCHANGED <<takerVars, services, versions, deployTime, instances>>
    /\ UNCHANGED <<aI, aRecv, aErr, sPc, sI, sShort, sRecv, sErr, vPc, vErr>>
    /\ UNCHANGED aTokens
    /\ UNCHANGED nonAppVars

ProjectReturn ==
    /\ pPc = "ingest"
    /\ aPc = "ret"
    /\ pErr' = aErr
    /\ pPc' = "done"
    /\ aPc' = "done"
    /\ UNCHANGED <<takerVars, treeVars, calls>>
    /\ UNCHANGED <<aI, aRecv, aErr, sPc, sI, sShort, sRecv, sErr, vPc, vErr>>
    /\ UNCHANGED aTokens
    /\ UNCHANGED nonAppVars

(***************************************************************************)
(* reportApplication.Ingest                                                *)
(***************************************************************************)
\* the number of completion tokens a level takes from its doneChan: one per
\* launched child
ReceiveShort(n) == IF n > 0 THEN n - 1 ELSE 0
ReceiveOneMore(n) == n + 1
ReceiveCount(n) == n

ServiceAppendFront(list, s) == <<s>> \o list
ServiceAppend(list, s) == Append(list, s)

AppList ==
    /\ aPc = "list"
    /\ LET r == ListServices IN
        IF r.err # "nil"
        THEN /\ aErr' = r.err
             /\ aPc' = "ret"
             /\ UNCHANGED <<aI, aRecv>>
        ELSE /\ aI' = 1
             /\ aRecv' = ReceiveCount(Len(r.items))
             /\ aPc' = IF Len(r.items) = 0 THEN "wait" ELSE "spawn"
             /\ UNCHANGED aErr
    /\ calls' = Called(Lookup("ListServices", 0, 0))
    /\ UNCHANGED <<takerVars, treeVars>>
    /\ UNCHANGED <<pPc, pErr, sPc, sI, sShort, sRecv, sErr, vPc, vErr>>
    /\ UNCHANGED aTokens
    /\ UNCHANGED nonAppVars

\* one iteration of the loop over the listed services: the node is created
\* and appended, and its goroutine started
AppSpawn ==
    /\ aPc = "spawn"
    /\ LET items == ListServices.items
           s == items[aI]
       IN /\ services' = ServiceAppend(services, s)
          /\ sPc' = [sPc EXCEPT ![s] = "list"]
          /\ aI' = aI + 1
          /\ aPc' = IF aI = Len(items) THEN "wait" ELSE "spawn"
    /\ UNCHANGED <<takerVars, application, versions, deployTime, instances, calls>>
    /\ UNCHANGED <<pPc, pErr, aRecv, aErr, sI, sShort, sRecv, sErr, vPc, vErr>>
    /\ UNCHANGED aTokens
    /\ UNCHANGED nonAppVars

\* the token a service goroutine sends: application id, ".", service id
ServiceToken(s) == <<application.gcpApplication, s>>

\* <-doneChan meets the send of a service goroutine (unbuffered channel)
AppRecv(s) ==
    /\ aPc = "wait"
    /\ aRecv > 0
    /\ sPc[s] = "send"
    /\ aRecv' = aRecv - 1
    /\ aTokens' = Append(aTokens, ServiceToken(s))
    /\ UNCHANGED nonAppVars
    /\ sPc' = [sPc EXCEPT ![s] = "done"]
    /\ UNCHANGED <<takerVars, treeVars, calls>>
    /\ UNCHANGED <<pPc, pErr, aPc, aI, aErr, sI, sShort, sRecv, sErr, vPc, vErr>>

AppReturn ==
    /\ aPc = "wait"
    /\ aRecv = 0
    /\ aErr' = "nil"
    /\ aPc' = "ret"
    /\ UNCHANGED <<takerVars, treeVars, calls>>
    /\ UNCHANGED <<pPc, pErr, aI, aRecv, sPc, sI, sShort, sRecv, sErr, vPc, vErr>>
    /\ UNCHANGED aTokens
    /\ UNCHANGED nonAppVars

(***************************************************************************)
(* reportService.Ingest, run by the goroutine reportApplication.Ingest     *)
(* starts; in position "send" Ingest has returned and the goroutine offers *)
(* its completion token.                                                   *)
(***************************************************************************)
ShortLenUncapped(limit, n) == n
ShortLen(limit, n) == IF limit > n THEN n ELSE limit

SvcList(s) ==
    /\ sPc[s] = "list"
    /\ LET r == ListVersions(s) IN
        IF r.err # "nil"
        THEN /\ sErr' = [sErr EXCEPT ![s] = r.err]
             /\ sPc' = [sPc EXCEPT ![s] = "send"]
             /\ UNCHANGED <<sI, sShort, sRecv>>
        ELSE LET n == Len(r.items)
                 short == SubSeq(r.items, n - ShortLen(versionLimit, n) + 1, n)
             IN /\ sShort' = [sShort EXCEPT ![s] = Len(short)]
                /\ sI' = [sI EXCEPT ![s] = Len(short)]
                /\ sRecv' = [sRecv EXCEPT ![s] = ReceiveCount(Len(short))]
                /\ sPc' = [sPc EXCEPT ![s] = IF Len(short) >= 1 THEN "spawn" ELSE "wait"]
                /\ UNCHANGED sErr
    /\ calls' = Called(Lookup("ListVersions", s, 0))
    /\ UNCHANGED <<takerVars, treeVars>>
    /\ UNCHANGED <<pPc, pErr, aPc, aI, aRecv, aErr, vPc, vErr>>
    /\ UNCHANGED aTokens
    /\ UNCHANGED nonAppVars

\* the version node of iteration i: gcpVersion := versions[i]
LoopVersionShort(s, i) == <<s, Len(vlist[s]) - sShort[s] + i>>
LoopVersion(s, i) == <<s, i>>

\* one iteration of the loop over shortVersions: the node is created and
\* appended, its goroutine started, and the creation time parsed and stored
\* in the node. No other unit reads or writes deployTime, so the iteration
\* is taken as one step.
SvcSpawn(s) ==
    /\ sPc[s] = "spawn"
    /\ LET v == LoopVersion(s, sI[s])
           gcpVersion == ListVersions(s).items[v[2]]
       IN /\ versions' = [versions EXCEPT ![s] = Append(@, v)]
          /\ vPc' = [vPc EXCEPT ![v] = "run"]
          /\ deployTime' = [deployTime EXCEPT ![v] = ParseTime(gcpVersion).time]
    /\ sI' = [sI EXCEPT ![s] = @ - 1]
    /\ sPc' = [sPc EXCEPT ![s] = IF sI[s] - 1 >= 1 THEN "spawn" ELSE "wait"]
    /\ UNCHANGED <<takerVars, application, services, instances, calls>>
    /\ UNCHANGED <<pPc, pErr, aPc, aI, aRecv, aErr, sShort, sRecv, sErr, vErr>>
    /\ UNCHANGED aTokens
    /\ UNCHANGED nonAppVars

SvcRecv(s, v) ==
    /\ sPc[s] = "wait"
    /\ sRecv[s] > 0
    /\ v[1] = s
    /\ vPc[v] = "send"
    /\ sRecv' = [sRecv EXCEPT ![s] = @ - 1]
    /\ vPc' = [vPc EXCEPT ![v] = "done"]
    /\ UNCHANGED <<takerVars, treeVars, calls>>
    /\ UNCHANGED <<pPc, pErr, aPc, aI, aRecv, aErr, sPc, sI, sShort, sErr, vErr>>
    /\ UNCHANGED aTokens
    /\ UNCHANGED nonAppVars

SvcReturn(s) ==
    /\ sPc[s] = "wait"
    /\ sRecv[s] = 0
    /\ sErr' = [sErr EXCEPT ![s] = "nil"]
    /\ sPc' = [sPc EXCEPT ![s] = "send"]
    /\ UNCHANGED <<takerVars, treeVars, calls>>
    /\ UNCHANGED <<pPc, pErr, aPc, aI, aRecv, aErr, sI, sShort, sRecv, vPc, vErr>>
    /\ UNCHANGED aTokens
    /\ UNCHANGED nonAppVars

(***************************************************************************)
(* reportVersion.Ingest, run by the goroutine reportService.Ingest starts  *)
(***************************************************************************)
\* the node the goroutine of version v ingests into: its own parameter
FirstOfService(v) == <<v[1], sShort[v[1]]>>
IngestTargetSibling(v) == <<v[1], 1>>
IngestTargetOther(v) == <<v[1], (v[2] % MaxVersions) + 1>>
IngestTargetRacy(v) ==
    IF \E w \in VersionIds : w[1] = v[1] /\ w # v /\ vPc[w] = "run"
    THEN CHOOSE w \in VersionIds : w[1] = v[1] /\ w # v /\ vPc[w] = "run"
    ELSE v
IngestTarget(v) == v

VersionIngest(v) ==
    /\ vPc[v] = "run"
    /\ LET r == ListVersionInstances(v) IN
        IF r.err = "nil"
        THEN /\ instances' = [instances EXCEPT ![IngestTarget(v)] = @ \o r.items]
             /\ vErr' = [vErr EXCEPT ![v] = "nil"]
        ELSE /\ vErr' = [vErr EXCEPT ![v] = r.err]
             /\ UNCHANGED instances
    /\ vPc' = [vPc EXCEPT ![v] = "send"]
    /\ calls' = Called(Lookup("ListVersionInstances", v[1], v[2]))
    /\ UNCHANGED <<takerVars, application, services, versions, deployTime>>
    /\ UNCHANGED <<pPc, pErr, aPc, aI, aRecv, aErr, sPc, sI, sShort, sRecv, sErr>>
    /\ UNCHANGED aTokens
    /\ UNCHANGED nonAppVars

\* the database side, the loop of the backups command and filterProjects at
\* rest
SQLIdle ==
    /\ sqlListErr = FALSE
    /\ gcpInstances = <<>>
    /\ sqlInstances = <<>>
    /\ sqlPc = "idle"
    /\ sqlI = 0
    /\ sqlErr = "none"

RunIdle ==
    /\ cloud = <<>>
    /\ ourProjects = <<>>
    /\ runPc = "idle"
    /\ runI = 0
    /\ runLog = <<>>
    /\ storageErr = "none"
    /\ ingested = <<>>
    /\ stCalls = 1

FilterIdle ==
    /\ fpArgs = <<>>
    /\ retProjects = <<>>
    /\ fpPc = "idle"

\* no operation of a live Taker is called
LiveIdle ==
    /\ liveResp = <<>>
    /\ liveErr = "nil"
    /\ liveOp = "none"
    /\ liveRet = <<>>
    /\ livePc = "idle"

\* the tree is not displayed
DisplayIdle ==
    /\ dPc = "idle"
    /\ dS = 0
    /\ displayed = <<>>

\* the storage side at rest, while the application tree is ingested
StorageIdle ==
    /\ backupKey = "backup"
    /\ within = DefaultWithin
    /\ now = 0
    /\ verbose = FALSE
    /\ bucketsErr = FALSE
    /\ gcpBuckets = <<>>
    /\ backupBuckets = <<>>
    /\ stPc = "idle"
    /\ stI = 0
    /\ ingestErr = "none"
    /\ out = {}
    /\ takerCalls = <<>>

(***************************************************************************)
(* The ingestion of one project.                                           *)
(***************************************************************************)
AllLookups == Lookups \cup {Lookup("GetApplication", 0, 0)}

\* the lookups a data source with these listings can be asked
Askable(n, vl) ==
    {Lookup("ListServices", 0, 0)}
        \cup {Lookup("ListVersions", s, 0) : s \in 1..n}
        \cup {Lookup("ListVersionInstances", v[1], v[2]) :
                v \in {w \in VersionIds : w[1] <= n /\ w[2] <= Len(vl[w[1]])}}

TreeInit ==
    /\ application = NilNode
    /\ services = <<>>
    /\ versions = [s \in Services |-> <<>>]
    /\ deployTime = [v \in VersionIds |-> ZeroTime]
    /\ instances = [v \in VersionIds |-> <<>>]

UnitInit ==
    /\ pPc = "get"
    /\ pErr = "none"
    /\ aPc = "idle"
    /\ aI = 0
    /\ aRecv = 0
    /\ aErr = "none"
    /\ aTokens = <<>>
    /\ sPc = [s \in Services |-> "idle"]
    /\ sI = [s \in Services |-> 0]
    /\ sShort = [s \in Services |-> 0]
    /\ sRecv = [s \in Services |-> 0]
    /\ sErr = [s \in Services |-> "none"]
    /\ vPc = [v \in VersionIds |-> "idle"]
    /\ vErr = [v \in VersionIds |-> "none"]

\* the creation times of a listing of n versions in the whole-project runs:
\* the three kinds of CreateTime in turn
FixtureTime(i) ==
    CASE i % 3 = 1 -> "2017-01-01T00:00:00Z"
      [] i % 3 = 2 -> "2017-01-02T00:00:00Z"
      [] OTHER -> "garbage"

\* instance counts 0..MaxInstances spread over the versions
FixtureCount(v) == (v[1] + v[2]) % (MaxInstances + 1)

\* the number of versions of service s: n for every service (d = 0), or n
\* for the first, n - 1 for the second, and so on (d = 1)
FixtureLen(n, d, s) == IF n - d * (s - 1) > 0 THEN n - d * (s - 1) ELSE 0

\* One project is ingested from the start. The data source has up to
\* MaxServices services with up to MaxVersions versions each; at most one
\* lookup fails.
Init ==
    /\ appOutcome \in {"ok", "notfound", "fail"}
    /\ nServices \in 0..MaxServices
    /\ \E n \in 0..MaxVersions, d \in {0, 1} :
        vlist = [s \in Services |->
                    IF s <= nServices
                    THEN [i \in 1..FixtureLen(n, d, s) |-> FixtureTime(i)]
                    ELSE <<>>]
    /\ icount = [v \in VersionIds |-> FixtureCount(v)]
    /\ failing \in {{}} \cup {{l} : l \in Askable(nServices, vlist)}
    /\ versionLimit \in 0..MaxLimit
    /\ TreeInit
    /\ UnitInit
    /\ calls = [l \in AllLookups |-> 0]
    /\ StorageIdle
    /\ SQLIdle
    /\ RunIdle
    /\ FilterIdle
    /\ LiveIdle
    /\ DisplayIdle

Next ==
    \/ ProjectGet
    \/ ProjectReturn
    \/ AppList
    \/ AppSpawn
    \/ \E s \in Services : AppRecv(s)
    \/ AppReturn
    \/ \E s \in Services : SvcList(s)
    \/ \E s \in Services : SvcSpawn(s)
    \/ \E s \in Services, v \in VersionIds : SvcRecv(s, v)
    \/ \E s \in Services : SvcReturn(s)
    \/ \E v \in VersionIds : VersionIngest(v)

Spec == Init /\ [][Next]_vars

\* every lookup issued returns and the scheduler runs every goroutine that
\* can run: a step of a unit that stays possible is eventually taken
Fairness ==
    /\ WF_vars(ProjectGet)
    /\ WF_vars(ProjectReturn)
    /\ WF_vars(AppList)
    /\ WF_vars(AppSpawn)
    /\ WF_vars(AppReturn)
    /\ \A s \in Services :
        /\ WF_vars(AppRecv(s))
        /\ WF_vars(SvcList(s))
        /\ WF_vars(SvcSpawn(s))
        /\ WF_vars(SvcReturn(s))
        /\ WF_vars(\E v \in VersionIds : SvcRecv(s, v))
    /\ \A v \in VersionIds : WF_vars(VersionIngest(v))

\* the project ingested under fairness: the data source has up to MaxServices
\* services, the first with up to MaxVersions versions, each next service
\* with one version less; at most one lookup fails
InitFair ==
    /\ appOutcome \in {"ok", "notfound", "fail"}
    /\ nServices \in 0..MaxServices
    /\ \E n \in 0..MaxVersions :
        vlist = [s \in Services |->
                    IF s <= nServices
                    THEN [i \in 1..FixtureLen(n, 1, s) |-> FixtureTime(i)]
                    ELSE <<>>]
    /\ icount = [v \in VersionIds |-> FixtureCount(v)]
    /\ failing \in {{}} \cup {{l} : l \in Askable(nServices, vlist)}
    /\ versionLimit \in 0..MaxLimit
    /\ TreeInit
    /\ UnitInit
    /\ calls = [l \in AllLookups |-> 0]
    /\ StorageIdle
    /\ SQLIdle
    /\ RunIdle
    /\ FilterIdle
    /\ LiveIdle
    /\ DisplayIdle

SpecFair == InitFair /\ [][Next]_vars /\ Fairness

(***************************************************************************)
(* The ingestion of one service, from the moment its goroutine starts:     *)
(* the application lists the single service 1, has started its goroutine   *)
(* and waits for its token. Every listing of up to MaxVersions versions    *)
(* with every creation time, every instance count, every limit.            *)
(***************************************************************************)
Listings == UNION {[1..n -> CreateTimes] : n \in 0..MaxVersions}

InitService ==
    /\ appOutcome = "ok"
    /\ nServices = 1
    /\ \E l \in Listings : vlist = [s \in Services |-> IF s = 1 THEN l ELSE <<>>]
    /\ \E ni \in [VersionIdx -> 0..MaxInstances] :
        icount = [v \in VersionIds |-> IF v[1] = 1 /\ v[2] <= Len(vlist[1]) THEN ni[v[2]] ELSE 0]
    /\ failing \in {{}} \cup {{l} : l \in Askable(1, vlist) \ {Lookup("ListServices", 0, 0)}}
    /\ versionLimit \in 0..MaxLimit
    /\ application = [gcpApplication |-> "app"]
    /\ services = <<1>>
    /\ versions = [s \in Services |-> <<>>]
    /\ deployTime = [v \in VersionIds |-> ZeroTime]
    /\ instances = [v \in VersionIds |-> <<>>]
    /\ pPc = "ingest"
    /\ pErr = "none"
    /\ aPc = "wait"
    /\ aI = 2
    /\ aRecv = 1
    /\ aErr = "none"
    /\ aTokens = <<>>
    /\ sPc = [s \in Services |-> IF s = 1 THEN "list" ELSE "idle"]
    /\ sI = [s \in Services |-> 0]
    /\ sShort = [s \in Services |-> 0]
    /\ sRecv = [s \in Services |-> 0]
    /\ sErr = [s \in Services |-> "none"]
    /\ vPc = [v \in VersionIds |-> "idle"]
    /\ vErr = [v \in VersionIds |-> "none"]
    /\ calls = [l \in AllLookups |->
                  IF l.op \in {"GetApplication", "ListServices"} THEN 1 ELSE 0]
    /\ StorageIdle
    /\ SQLIdle
    /\ RunIdle
    /\ FilterIdle
    /\ LiveIdle
    /\ DisplayIdle

NextService ==
    \/ \E s \in Services : SvcList(s)
    \/ \E s \in Services : SvcSpawn(s)
    \/ \E s \in Services, v \in VersionIds : SvcRecv(s, v)
    \/ \E s \in Services : SvcReturn(s)
    \/ \E v \in VersionIds : VersionIngest(v)

SpecService == InitService /\ [][NextService]_vars

(***************************************************************************)
(* Properties of the application tree ingestion.                           *)
(***************************************************************************)
AppReturned == aPc \in {"ret", "done"}
ServiceReturned(s) == sPc[s] \in {"send", "done"}
\* a goroutine that was never started, or has handed over its token
ServiceUnitOver(s) == sPc[s] \in {"idle", "done"}
VersionUnitOver(v) == vPc[v] \in {"idle", "done"}
VersionsOf(s) == {versions[s][k] : k \in 1..Len(versions[s])}

\* C1: each level is a join barrier. reportApplication.Ingest has returned
\* only when every service goroutine it started has finished
\* reportService.Ingest and handed over its token, reportService.Ingest has
\* returned only when every version goroutine it started has finished
\* reportVersion.Ingest and handed over its token; once reportProject.Ingest
\* has returned no goroutine is running and no step writes the tree.
C1_JoinBarrier ==
    /\ [](AppReturned => \A s \in Services : ServiceUnitOver(s))
    /\ [](\A s \in Services : ServiceReturned(s) =>
            \A v \in VersionIds : v[1] = s => VersionUnitOver(v))
    /\ [](pPc = "done" =>
            /\ \A s \in Services : ServiceUnitOver(s)
            /\ \A v \in VersionIds : VersionUnitOver(v))
    /\ [][pPc = "done" => treeVars' = treeVars]_vars

\* C1 witness: the project is ingested, two services with versions and
\* instances each have run and finished.
C1_Witness ==
    /\ pPc = "done"
    /\ pErr = "nil"
    /\ Len(services) >= 2
    /\ \A k \in 1..Len(services) : Len(versions[services[k]]) >= 1
    /\ \E v \in VersionIds : vPc[v] = "done" /\ Len(instances[v]) >= 1

\* C2: when ListVersions returned N versions, after reportService.Ingest has
\* returned the service holds exactly min(N, versionLimit) version nodes and
\* ListVersionInstances was requested for exactly the versions it holds.
C2_VersionCount ==
    \A s \in Services :
        (ServiceReturned(s) /\ sErr[s] = "nil") =>
            /\ Len(versions[s]) = Min(Len(vlist[s]), versionLimit)
            /\ Cardinality(VersionsOf(s)) = Len(versions[s])
            /\ {v \in VersionIds :
                    v[1] = s /\ calls[Lookup("ListVersionInstances", v[1], v[2])] > 0}
                = VersionsOf(s)

\* C2 witness: two versions listed, limit 1, Ingest returned with one version.
C2_Witness ==
    /\ ServiceReturned(1)
    /\ sErr[1] = "nil"
    /\ Len(vlist[1]) = 2
    /\ versionLimit = 1
    /\ Len(versions[1]) = 1

\* C3: once reportService.Ingest has returned, svc.versions is ordered by
\* parsed creation time, most recent first, and no version left out was
\* created after a version that is held.
C3_MostRecentFirst ==
    \A s \in Services :
        (ServiceReturned(s) /\ sErr[s] = "nil") =>
            /\ \A i, j \in 1..Len(versions[s]) :
                i < j => deployTime[versions[s][i]] >= deployTime[versions[s][j]]
            /\ \A v \in VersionsOf(s) : \A w \in 1..Len(vlist[s]) :
                <<s, w>> \notin VersionsOf(s) =>
                    ParseTime(vlist[s][w]).time <= ParseTime(vlist[s][v[2]]).time

\* C4: when GetApplication and ListServices succeed, reportProject.Ingest
\* returns no error, the application node holds the application returned and
\* app.services holds one node per listed service, in the order of the
\* listing, whatever the order in which the service goroutines complete.
C4_ServicesInListingOrder ==
    (/\ pPc = "done"
     /\ appOutcome = "ok"
     /\ Lookup("ListServices", 0, 0) \notin failing) =>
        /\ pErr = "nil"
        /\ application = [gcpApplication |-> "app"]
        /\ services = [k \in 1..nServices |-> k]

\* C4 witness: two services ingested, the second one completing first.
C4_Witness ==
    /\ pPc = "done"
    /\ pErr = "nil"
    /\ services = <<1, 2>>
    /\ aTokens = <<<<"app", 2>>, <<"app", 1>>>>

\* reportService.Display: numInstances := len(version.instances)
NumInstances(v) == Len(instances[v])

\* C5: the instance list of a version is the list ListVersionInstances
\* returned for that version, every instance in it belonging to the version,
\* once its reportVersion.Ingest has run without error, and empty (count 0)
\* in every other case.
C5_OwnInstances ==
    \A v \in VersionIds :
        IF vPc[v] \in {"send", "done"} /\ vErr[v] = "nil"
        THEN /\ NumInstances(v) = icount[v]
             /\ \A k \in 1..Len(instances[v]) : instances[v][k] = <<v[1], v[2], k>>
        ELSE NumInstances(v) = 0

\* C5 witness: two sibling versions of a service, both with an instance, both
\* ingested.
C5_Witness ==
    /\ vPc[<<1, 1>>] = "done"
    /\ vPc[<<1, 2>>] = "done"
    /\ NumInstances(<<1, 1>>) = 1
    /\ NumInstances(<<1, 2>>) = 1

\* C10: when GetApplication reports that the project has no application,
\* reportProject.Ingest leaves the application node null, creates no
\* service and returns no error.
C10_NotFoundIsSuccess ==
    (pPc = "done" /\ appOutcome = "notfound") =>
        /\ application = NilNode
        /\ services = <<>>
        /\ pErr = "nil"

\* C11: when a listing lookup issued during reportProject.Ingest has failed
\* (ListServices, ListVersions of a service, ListVersionInstances of a
\* version), reportProject.Ingest returns an error.
C11_ListingFailureSurfaces ==
    (pPc = "done" /\ \E l \in failing : calls[l] > 0) => pErr \notin {"nil", "none"}

\* the versions a service holds when nothing below it fails: the first
\* min(N, versionLimit) entries of its listing, last of them first
ExpectedVersions(s) ==
    LET m == Min(Len(vlist[s]), versionLimit) IN [k \in 1..m |-> <<s, m + 1 - k>>]

\* C12: a failed listing empties only its own node. After
\* reportProject.Ingest, a service whose ListVersions failed holds no
\* version and a version whose ListVersionInstances failed holds no
\* instance, while every other service and version holds what the data
\* source lists for it, the same as when no lookup fails.
C12_FailureAbortsOwnSubtree ==
    (/\ pPc = "done"
     /\ appOutcome = "ok"
     /\ Lookup("ListServices", 0, 0) \notin failing) =>
        /\ services = [k \in 1..nServices |-> k]
        /\ \A s \in 1..nServices :
            IF Lookup("ListVersions", s, 0) \in failing
            THEN versions[s] = <<>>
            ELSE /\ versions[s] = ExpectedVersions(s)
                 /\ \A v \in VersionsOf(s) :
                     /\ deployTime[v] = ParseTime(vlist[s][v[2]]).time
                     /\ instances[v] =
                            IF Lookup("ListVersionInstances", v[1], v[2]) \in failing
                            THEN <<>>
                            ELSE [j \in 1..icount[v] |-> <<v[1], v[2], j>>]

\* C12 witness: ListVersions failed for the first of two services, which
\* holds no version; the second service holds a version with its instance.
C12_Witness ==
    /\ pPc = "done"
    /\ failing = {Lookup("ListVersions", 1, 0)}
    /\ calls[Lookup("ListVersions", 1, 0)] = 1
    /\ services = <<1, 2>>
    /\ versions[1] = <<>>
    /\ Len(versions[2]) >= 1
    /\ \E v \in VersionsOf(2) : Len(instances[v]) >= 1

MapGet(m, k) == IF k \in DOMAIN m THEN m[k] ELSE ""

\* the token starts with the literal backup_info
HasBackupInfoPrefix(tok) == tok \in {"backup_info", "backup_info_v2"}

\* the places where objectDatastoreKindRegex, \.([^.]+)\.backup_info, matches
\* in id: a dot at i, a non-empty run without a dot, a dot at j, backup_info
KindMatches(id) ==
    {m \in (1..Len(id)) \X (1..Len(id)) :
        /\ id[m[1]] = "."
        /\ id[m[2]] = "."
        /\ m[2] > m[1] + 1
        /\ \A k \in (m[1] + 1)..(m[2] - 1) : id[k] # "."
        /\ m[2] + 1 <= Len(id)
        /\ HasBackupInfoPrefix(id[m[2] + 1])}

\* reportObject.DatastoreGleanMeta: the first group of the leftmost match, or
\* the empty kind
DatastoreGleanMeta(id) ==
    IF KindMatches(id) = {}
    THEN <<>>
    ELSE LET m == CHOOSE x \in KindMatches(id) : \A y \in KindMatches(id) : x[1] <= y[1]
         IN SubSeq(id, m[1] + 1, m[2] - 1)

\* objectSlice.Less: o[i].updateTime.After(o[j].updateTime)
ObjectLessBefore(a, b) == a.updateTime < b.updateTime
ObjectLess(a, b) == a.updateTime > b.updateTime

Perms(n) == {f \in [1..n -> 1..n] : \A i, j \in 1..n : i # j => f[i] # f[j]}

\* sort.Sort(objectSlice(rb.objects)): the sort is not stable, so every
\* arrangement of the same objects in which no element is Less than an
\* earlier one can be the result
SortResults(objs) ==
    {[k \in 1..Len(objs) |-> objs[f[k]]] : f \in
        {g \in Perms(Len(objs)) :
            \A i, j \in 1..Len(objs) : i < j => ~ObjectLess(objs[g[j]], objs[g[i]])}}

\* the objects of kind among objs, in their order
RECURSIVE OfKind(_, _)
OfKind(objs, kind) ==
    IF objs = <<>> THEN <<>>
    ELSE IF Head(objs).kind = kind
         THEN <<Head(objs)>> \o OfKind(Tail(objs), kind)
         ELSE OfKind(Tail(objs), kind)

\* the map reportBucket.UpdateKindMap builds from the sorted objects: objects
\* with the empty kind are skipped
KindMapKeepAll(sorted) ==
    [kind \in {sorted[k].kind : k \in 1..Len(sorted)} |-> OfKind(sorted, kind)]
KindMapOf(sorted) ==
    [kind \in {sorted[k].kind : k \in 1..Len(sorted)} \ {<<>>} |-> OfKind(sorted, kind)]

\* the object node reportBucket.IngestObjects creates for a listed object
NewObject(gcpObject) ==
    [gcpObject |-> gcpObject,
     updateTime |-> ParseTime(gcpObject.updated).time,
     kind |-> DatastoreGleanMeta(gcpObject.id)]

\* TakerStorageGCP.ListObjects for the bucket with identifier b
ListObjects(b) ==
    IF gcpBuckets[b].objErr
    THEN [items |-> <<>>, err |-> "Transport"]
    ELSE [items |-> gcpBuckets[b].objects, err |-> "nil"]

\* TakerStorageGCP.ListBuckets
ListBuckets ==
    IF bucketsErr
    THEN [items |-> <<>>, err |-> "Transport"]
    ELSE [items |-> gcpBuckets, err |-> "nil"]

\* reportBucket.IngestObjects on node rb, sort.Sort leaving the objects as
\* sorted: the node afterwards, the error and the lines printed
IngestObjectsFailedNoNode(rb, r) == [node |-> NilNode, err |-> r.err, lines |-> {}]
IngestObjectsFailed(rb, r) == [node |-> rb, err |-> r.err, lines |-> {}]

IngestObjectsDone(rb, sorted) ==
    LET kindMap == KindMapOf(sorted) IN
        [node |-> [rb EXCEPT !.objects = sorted, !.kindMap = kindMap],
         err |-> "nil",
         lines |-> {[line |-> "objects", bucket |-> rb.gcpBucket,
                     n |-> Len(ListObjects(rb.gcpBucket).items)]}
                   \cup {[line |-> "kind", bucket |-> rb.gcpBucket, kind |-> kind,
                          object |-> kindMap[kind][1]] : kind \in DOMAIN kindMap}]

IngestObjectsResults(rb) ==
    LET r == ListObjects(rb.gcpBucket) IN
        IF r.err # "nil"
        THEN {IngestObjectsFailed(rb, r)}
        ELSE {IngestObjectsDone(rb, sorted) :
                sorted \in SortResults(rb.objects \o [k \in 1..Len(r.items) |-> NewObject(r.items[k])])}

\* reportProject.IngestStorage: isBackup of the node created for gcpBucket
IsBackupNonEmpty(gcpBucket) == MapGet(gcpBucket.labels, backupKey) # ""
IsBackup(gcpBucket) == MapGet(gcpBucket.labels, backupKey) = "true"

\* the objects of the bucket are ingested: if isBackup
IngestsObjectsAlways(isBackup) == TRUE
IngestsObjects(isBackup) == isBackup

\* reportProject.IngestStorage, called for the project by the loop of the
\* backups command: the listing
StorageList ==
    /\ stPc = "list"
    /\ LET r == ListBuckets IN
        IF r.err = "nil"
        THEN /\ stI' = 1
             /\ stPc' = IF Len(r.items) = 0 THEN "ret" ELSE "bucket"
             /\ UNCHANGED ingestErr
        ELSE /\ ingestErr' = r.err
             /\ stPc' = "ret"
             /\ UNCHANGED stI
    /\ UNCHANGED <<storageData, backupBuckets, out, takerCalls>>
    /\ UNCHANGED nonStorageVars

\* one iteration of the loop over the listed buckets: the node is created
\* (the literal sets gcpBucket and isBackup and leaves project nil) and
\* appended, and the objects of a backup bucket are ingested
StorageBucket ==
    /\ stPc = "bucket"
    /\ LET gcpBucket == ListBuckets.items[stI]
           isBackup == IsBackup(gcpBucket)
           bucket == [gcpBucket |-> gcpBucket.id, isBackup |-> isBackup,
                      objects |-> <<>>, kindMap |-> <<>>, project |-> NilNode]
       IN IF IngestsObjects(isBackup)
          THEN \E res \in IngestObjectsResults(bucket) :
                /\ backupBuckets' = Append(backupBuckets, res.node)
                /\ ingestErr' = res.err
                /\ out' = out \cup res.lines
                /\ takerCalls' = Append(takerCalls, <<"ListObjects", gcpBucket.id>>)
          ELSE /\ backupBuckets' = Append(backupBuckets, bucket)
               /\ UNCHANGED <<ingestErr, out, takerCalls>>
    /\ stI' = stI + 1
    /\ stPc' = IF stI = Len(ListBuckets.items) THEN "ret" ELSE "bucket"
    /\ UNCHANGED storageData
    /\ UNCHANGED nonStorageVars

\* the application tree side at rest, while the storage is ingested
AppIdle ==
    /\ appOutcome = "ok"
    /\ nServices = 0
    /\ vlist = [s \in Services |-> <<>>]
    /\ icount = [v \in VersionIds |-> 0]
    /\ failing = {}
    /\ versionLimit = 0
    /\ TreeInit
    /\ pPc = "idle"
    /\ pErr = "none"
    /\ aPc = "idle"
    /\ aI = 0
    /\ aRecv = 0
    /\ aErr = "none"
    /\ aTokens = <<>>
    /\ sPc = [s \in Services |-> "idle"]
    /\ sI = [s \in Services |-> 0]
    /\ sShort = [s \in Services |-> 0]
    /\ sRecv = [s \in Services |-> 0]
    /\ sErr = [s \in Services |-> "none"]
    /\ vPc = [v \in VersionIds |-> "idle"]
    /\ vErr = [v \in VersionIds |-> "none"]
    /\ calls = [l \in AllLookups |-> 0]

\* object identifiers: two backups of kind foo, one of kind bar, and
\* identifiers the pattern does not match (no dot before the kind, an empty
\* kind)
ObjectIds ==
    {<<"2021-01-01", ".", "foo", ".", "backup_info">>,
     <<"2021-01-02", ".", "foo", ".", "backup_info">>,
     <<"x", ".", "bar", ".", "backup_info_v2">>,
     <<"foo", ".", "backup_info">>,
     <<"y", ".", ".", "backup_info">>}

GcpObjects == [id : ObjectIds, updated : CreateTimes]

\* label maps: the key backup absent or with one of four values, the key bk
\* absent or "true"
LabelMaps ==
    UNION {[S -> {"", "true", "false", "yes"}] : S \in SUBSET {"backup"}}
        \cup {[k \in {"bk"} |-> "true"]}
        \cup {[k \in {"backup", "bk"} |-> IF k = "bk" THEN "true" ELSE v] :
                v \in {"", "true", "false", "yes"}}

\* the object listings of the runs over several buckets
SmallListings ==
    {<<>>,
     <<[id |-> <<"2021-01-01", ".", "foo", ".", "backup_info">>, updated |-> "2017-01-01T00:00:00Z"],
       [id |-> <<"foo", ".", "backup_info">>, updated |-> "2017-01-02T00:00:00Z"],
       [id |-> <<"2021-01-02", ".", "foo", ".", "backup_info">>, updated |-> "2017-01-02T00:00:00Z"]>>}

StorageStart ==
    /\ backupBuckets = <<>>
    /\ stPc = "list"
    /\ stI = 0
    /\ ingestErr = "nil"
    /\ out = {}
    /\ takerCalls = <<>>

\* reportProject.IngestStorage on a project with up to MaxBuckets buckets of
\* every label map, updated 30 hours ago, the object listing of any of them
\* failing or not
InitStorage ==
    /\ AppIdle
    /\ backupKey \in {"backup", "bk"}
    /\ within = DefaultWithin
    /\ now = 54
    /\ verbose = FALSE
    /\ bucketsErr \in BOOLEAN
    /\ \E n \in 0..MaxBuckets, objects \in SmallListings :
        \E labels \in [1..n -> LabelMaps], objErr \in [1..n -> BOOLEAN] :
            /\ bucketsErr => n = 0
            /\ gcpBuckets = [k \in 1..n |->
                    [id |-> k, labels |-> labels[k], updated |-> "2017-01-02T00:00:00Z",
                     objects |-> objects, objErr |-> objErr[k]]]
    /\ StorageStart
    /\ SQLIdle
    /\ RunIdle
    /\ FilterIdle
    /\ LiveIdle
    /\ DisplayIdle

\* reportProject.IngestStorage on a project with one backup bucket, with
\* every listing of up to MaxObjects objects
InitObjects ==
    /\ AppIdle
    /\ backupKey = "backup"
    /\ within = DefaultWithin
    /\ now = 54
    /\ verbose = FALSE
    /\ bucketsErr = FALSE
    /\ \E n \in 0..MaxObjects, objErr \in BOOLEAN :
        \E objects \in [1..n -> GcpObjects] :
            /\ objErr => n = 0
            /\ gcpBuckets = <<[id |-> 1, labels |-> [k \in {"backup"} |-> "true"],
                               updated |-> "2017-01-02T00:00:00Z",
                               objects |-> objects, objErr |-> objErr]>>
    /\ StorageStart
    /\ SQLIdle
    /\ RunIdle
    /\ FilterIdle
    /\ LiveIdle
    /\ DisplayIdle

NextStorage ==
    \/ StorageList
    \/ StorageBucket

SpecStorage == InitStorage /\ [][NextStorage]_vars

SpecObjects == InitObjects /\ [][NextStorage]_vars

\* One call of either ingestion of a project: reportProject.Ingest (the apps
\* command) or reportProject.IngestStorage (the backups command).
InitIngestion == Init \/ InitStorage

NextIngestion ==
    \/ Next
    \/ NextStorage

SpecIngestion == InitIngestion /\ [][NextIngestion]_vars

(***************************************************************************)
(* reportProject.IngestStorageInfo, the storage ingestion of backup.go     *)
(***************************************************************************)
\* time.Since(t), in hours
Since(t) == now - t

\* the bucket has not been backed up within the interval
IsStaleInclusive(gcpBucket) ==
    LET p == ParseTime(gcpBucket.updated) IN p.err # "nil" \/ Since(p.time) >= within
IsStale(gcpBucket) ==
    LET p == ParseTime(gcpBucket.updated) IN p.err # "nil" \/ Since(p.time) > within

\* the lines printed for the objects of a stale bucket
ObjectLines(b, items) ==
    (IF verbose
     THEN {IF ParseTime(items[k].updated).err # "nil"
           THEN [line |-> "cannot parse date", bucket |-> b, object |-> items[k].id]
           ELSE [line |-> "object", bucket |-> b, object |-> items[k].id,
                 at |-> ParseTime(items[k].updated).time] : k \in 1..Len(items)}
     ELSE {})
    \cup (IF Len(items) = 0 THEN {[line |-> "no backup listings seen", bucket |-> b]} ELSE {})

InfoList ==
    /\ stPc = "infolist"
    /\ LET r == ListBuckets IN
        IF r.err = "nil"
        THEN /\ stI' = 1
             /\ stPc' = IF Len(r.items) = 0 THEN "ret" ELSE "infobucket"
             /\ ingestErr' = "nil"
        ELSE /\ ingestErr' = r.err
             /\ stPc' = "ret"
             /\ UNCHANGED stI
    /\ UNCHANGED <<storageData, backupBuckets, out, takerCalls>>
    /\ UNCHANGED nonStorageVars

\* one iteration of the loop over the listed buckets
InfoBucket ==
    /\ stPc = "infobucket"
    /\ LET gcpBucket == ListBuckets.items[stI]
           bucket == [gcpBucket |-> gcpBucket.id, gcpObjects |-> <<>>]
           r == ListObjects(gcpBucket.id)
       IN IF MapGet(gcpBucket.labels, backupKey) = ""
          THEN UNCHANGED <<backupBuckets, out>>
          ELSE IF ~IsStale(gcpBucket)
          THEN /\ backupBuckets' = Append(backupBuckets, bucket)
               /\ out' = out \cup {[line |-> "fresh", bucket |-> gcpBucket.id,
                                    ago |-> Since(ParseTime(gcpBucket.updated).time)]}
          ELSE IF r.err # "nil"
          THEN /\ backupBuckets' = Append(backupBuckets, bucket)
               /\ out' = out \cup {[line |-> "stale", bucket |-> gcpBucket.id],
                                   [line |-> "bucket", bucket |-> gcpBucket.id],
                                   [line |-> "bad object get", bucket |-> gcpBucket.id]}
          ELSE /\ backupBuckets' = Append(backupBuckets, [bucket EXCEPT !.gcpObjects = r.items])
               /\ out' = out \cup {[line |-> "stale", bucket |-> gcpBucket.id],
                                   [line |-> "bucket", bucket |-> gcpBucket.id]}
                             \cup ObjectLines(gcpBucket.id, r.items)
    /\ takerCalls' =
        IF MapGet(ListBuckets.items[stI].labels, backupKey) # "" /\ IsStale(ListBuckets.items[stI])
        THEN Append(takerCalls, <<"ListObjects", ListBuckets.items[stI].id>>)
        ELSE takerCalls
    /\ stI' = stI + 1
    /\ stPc' = IF stI = Len(ListBuckets.items) THEN "ret" ELSE "infobucket"
    /\ UNCHANGED <<storageData, ingestErr>>
    /\ UNCHANGED nonStorageVars

\* the Updated of a bucket: with the clock at 54 hours, 54, 30, 24 and 23
\* hours ago, or text that does not parse
BucketTimes ==
    {"garbage", "2017-01-01T00:00:00Z", "2017-01-02T00:00:00Z",
     "2017-01-02T06:00:00Z", "2017-01-02T07:00:00Z"}

InfoListings ==
    {<<>>,
     <<[id |-> <<"2021-01-01", ".", "foo", ".", "backup_info">>, updated |-> "2017-01-01T00:00:00Z"],
       [id |-> <<"foo", ".", "backup_info">>, updated |-> "garbage"]>>}

\* reportProject.IngestStorageInfo on a project with up to MaxBuckets
\* buckets, labelled or not, of every age; at most one object listing fails
InitStorageInfo ==
    /\ AppIdle
    /\ backupKey = "backup"
    /\ within \in {DefaultWithin, 30}
    /\ now = 54
    /\ verbose \in BOOLEAN
    /\ bucketsErr \in BOOLEAN
    /\ \E n \in 0..MaxBuckets, objects \in InfoListings :
        \E labels \in [1..n -> {<<>>, [k \in {"backup"} |-> "true"], [k \in {"backup"} |-> "false"]}],
           updated \in [1..n -> BucketTimes], bad \in 0..n :
            /\ bucketsErr => n = 0
            /\ gcpBuckets = [k \in 1..n |->
                    [id |-> k, labels |-> labels[k], updated |-> updated[k],
                     objects |-> objects, objErr |-> (k = bad)]]
    /\ backupBuckets = <<>>
    /\ stPc = "infolist"
    /\ stI = 0
    /\ ingestErr = "none"
    /\ out = {}
    /\ takerCalls = <<>>
    /\ SQLIdle
    /\ RunIdle
    /\ FilterIdle
    /\ LiveIdle
    /\ DisplayIdle

NextStorageInfo ==
    \/ InfoList
    \/ InfoBucket

SpecStorageInfo == InitStorageInfo /\ [][NextStorageInfo]_vars

(***************************************************************************)
(* The database side: reportProject.IngestSQLInstances                     *)
(***************************************************************************)
MaxSQLInstances == 2
MaxRuns == 4

\* the number of backup runs printed for an instance
maxRuns == 3

\* the backup runs of the instance are listed: if backups are enabled
RequestsRunsAlways(gcpInstance) == TRUE
RequestsRuns(gcpInstance) == gcpInstance.enabled

\* TakerSQLAdminGCP.ListSQLInstances
ListSQLInstances ==
    IF sqlListErr
    THEN [items |-> <<>>, err |-> "Transport"]
    ELSE [items |-> gcpInstances, err |-> "nil"]

\* TakerSQLAdminGCP.ListBackupRuns for the instance with the name given
ListBackupRuns(name) ==
    IF gcpInstances[name].runsErr
    THEN [items |-> <<>>, err |-> "Transport"]
    ELSE [items |-> gcpInstances[name].runs, err |-> "nil"]

\* instance.backupRuns[0:maxRuns], maxRuns lowered to the number of runs
\* listed
DisplayedRuns(backupRuns, gcpBackups) ==
    SubSeq(backupRuns, 1, IF maxRuns >= Len(gcpBackups) THEN Len(gcpBackups) ELSE maxRuns)

SQLList ==
    /\ sqlPc = "list"
    /\ LET r == ListSQLInstances IN
        IF r.err # "nil"
        THEN /\ sqlErr' = r.err
             /\ sqlPc' = "ret"
             /\ UNCHANGED sqlI
        ELSE /\ sqlI' = 1
             /\ sqlPc' = IF Len(r.items) = 0 THEN "ret" ELSE "instance"
             /\ sqlErr' = IF Len(r.items) = 0 THEN "nil" ELSE sqlErr
    /\ UNCHANGED <<sqlData, sqlInstances, out, takerCalls>>
    /\ UNCHANGED nonSQLVars

\* one iteration of the loop over the listed instances: the node is created
\* (the literal sets gcpSQLInstance and leaves project nil) and appended; for
\* an instance with backups enabled the runs are listed, all of them stored
\* and the first maxRuns printed
SQLInstance ==
    /\ sqlPc = "instance"
    /\ LET gcpInstance == ListSQLInstances.items[sqlI]
           instance == [gcpSQLInstance |-> gcpInstance.name, backupRuns |-> <<>>,
                        project |-> NilNode]
           r == ListBackupRuns(gcpInstance.name)
           enabledLine == [line |-> "sql instance", instance |-> gcpInstance.name,
                           enabled |-> gcpInstance.enabled]
       IN IF ~RequestsRuns(gcpInstance)
          THEN /\ sqlInstances' = Append(sqlInstances, instance)
               /\ out' = out \cup {enabledLine}
          ELSE IF r.err # "nil"
          THEN /\ sqlInstances' = Append(sqlInstances, instance)
               /\ out' = out \cup {enabledLine,
                                   [line |-> "cannot get list of backup runs",
                                    instance |-> gcpInstance.name]}
          ELSE LET backupRuns == instance.backupRuns
                                    \o [k \in 1..Len(r.items) |-> [gcpBackupRun |-> r.items[k]]]
                   shown == DisplayedRuns(backupRuns, r.items)
               IN /\ sqlInstances' = Append(sqlInstances, [instance EXCEPT !.backupRuns = backupRuns])
                  /\ out' = out \cup {enabledLine}
                                \cup {[line |-> "backup", instance |-> gcpInstance.name,
                                       index |-> k - 1, run |-> shown[k].gcpBackupRun] :
                                        k \in 1..Len(shown)}
    /\ takerCalls' =
        IF RequestsRuns(ListSQLInstances.items[sqlI])
        THEN Append(takerCalls, <<"ListBackupRuns", ListSQLInstances.items[sqlI].name>>)
        ELSE takerCalls
    /\ sqlI' = sqlI + 1
    /\ sqlPc' = IF sqlI = Len(ListSQLInstances.items) THEN "ret" ELSE "instance"
    /\ sqlErr' = IF sqlI = Len(ListSQLInstances.items) THEN "nil" ELSE sqlErr
    /\ UNCHANGED sqlData
    /\ UNCHANGED nonSQLVars

\* the listings of ListBackupRuns: up to MaxRuns runs enqueued at different
\* hours, in every order
RunListings ==
    UNION {{[k \in 1..n |-> [id |-> k, enqueuedTime |-> f[k]]] : f \in Perms(n)} : n \in 0..MaxRuns}

\* reportProject.IngestSQLInstances on a project with up to MaxSQLInstances
\* instances, backups enabled or not; at most one run listing fails
InitSQL ==
    /\ AppIdle
    /\ StorageIdle
    /\ RunIdle
    /\ FilterIdle
    /\ LiveIdle
    /\ DisplayIdle
    /\ sqlListErr \in BOOLEAN
    /\ \E n \in 0..MaxSQLInstances, runs \in RunListings :
        \E enabled \in [1..n -> BOOLEAN], bad \in 0..n :
            /\ sqlListErr => n = 0
            /\ gcpInstances = [k \in 1..n |->
                    [name |-> k, enabled |-> enabled[k], runs |-> runs, runsErr |-> (k = bad)]]
    /\ sqlInstances = <<>>
    /\ sqlPc = "list"
    /\ sqlI = 0
    /\ sqlErr = "none"

NextSQL ==
    \/ SQLList
    \/ SQLInstance

SpecSQL == InitSQL /\ [][NextSQL]_vars

(***************************************************************************)
(* The loop of the backups command over the filtered projects.             *)
(***************************************************************************)
MaxProjects == 2

\* the loop index after the iteration of project i
NextProjectStopOnError(i, stErr, sqErr) ==
    IF stErr # "nil" \/ sqErr # "nil" THEN Len(ourProjects) + 1 ELSE i + 1
NextProject(i, stErr, sqErr) == i + 1

\* the iteration starts: the project line is printed and IngestStorage is
\* called on the project, whose lists are empty; the data source answers for
\* this project from here on
RunProject ==
    /\ runPc = "loop"
    /\ LET project == ourProjects[runI]
           c == cloud[project.gcpProject]
       IN /\ out' = out \cup {[line |-> "project", project |-> project.gcpProject,
                               env |-> project.env, component |-> project.component]}
          /\ runLog' = Append(runLog, <<"IngestStorage", project.gcpProject>>)
          /\ bucketsErr' = c.bucketsErr
          /\ gcpBuckets' = c.gcpBuckets
          /\ sqlListErr' = c.sqlListErr
          /\ gcpInstances' = c.gcpInstances
    /\ backupBuckets' = <<>>
    /\ sqlInstances' = <<>>
    /\ stPc' = "list"
    /\ stI' = 0
    /\ ingestErr' = "nil"
    /\ runPc' = "storage"
    /\ UNCHANGED <<backupKey, within, now, verbose, sqlPc, sqlI, sqlErr, takerCalls>>
    /\ UNCHANGED <<cloud, ourProjects, runI, storageErr, ingested, stCalls>>
    /\ UNCHANGED <<appVars, filterVars, liveVars, displayVars>>

\* IngestStorage has returned: its result is kept in storageErr and
\* IngestSQLInstances is called
RunSQL ==
    /\ runPc = "storage"
    /\ stPc = "ret"
    /\ storageErr' = ingestErr
    /\ runLog' = Append(runLog, <<"IngestSQLInstances", ourProjects[runI].gcpProject>>)
    /\ stPc' = "idle"
    /\ sqlPc' = "list"
    /\ sqlI' = 0
    /\ sqlErr' = "none"
    /\ runPc' = "sql"
    /\ UNCHANGED <<storageData, backupBuckets, stI, ingestErr, out, takerCalls>>
    /\ UNCHANGED <<sqlData, sqlInstances>>
    /\ UNCHANGED <<cloud, ourProjects, runI, ingested, stCalls>>
    /\ UNCHANGED <<appVars, filterVars, liveVars, displayVars>>

\* IngestSQLInstances has returned: an error of either call is logged and the
\* loop goes on
RunEnd ==
    /\ runPc = "sql"
    /\ sqlPc = "ret"
    /\ out' = IF storageErr # "nil" \/ sqlErr # "nil"
              THEN out \cup {[line |-> "at least some GCP info cannot be ingested",
                              project |-> ourProjects[runI].gcpProject,
                              sqlErr |-> sqlErr, storageErr |-> storageErr]}
              ELSE out
    /\ ingested' = Append(ingested, [gcpProject |-> ourProjects[runI].gcpProject,
                                     backupBuckets |-> backupBuckets,
                                     sqlInstances |-> sqlInstances])
    /\ runI' = NextProject(runI, storageErr, sqlErr)
    /\ runPc' = IF NextProject(runI, storageErr, sqlErr) > Len(ourProjects) THEN "done" ELSE "loop"
    /\ sqlPc' = "idle"
    /\ UNCHANGED <<storageData, backupBuckets, stPc, stI, ingestErr, takerCalls>>
    /\ UNCHANGED <<sqlData, sqlInstances, sqlI, sqlErr>>
    /\ UNCHANGED <<cloud, ourProjects, runLog, storageErr, stCalls>>
    /\ UNCHANGED <<appVars, filterVars, liveVars, displayVars>>

\* what the data source holds for a project: one backup bucket with two
\* objects and one instance with backups enabled and two runs, any of the
\* four listings failing
ProjectData ==
    {[bucketsErr |-> be,
      gcpBuckets |-> <<[id |-> 1, labels |-> [k \in {"backup"} |-> "true"],
                        updated |-> "2017-01-02T00:00:00Z",
                        objects |-> <<[id |-> <<"x", ".", "bar", ".", "backup_info_v2">>,
                                       updated |-> "2017-01-01T00:00:00Z"],
                                      [id |-> <<"foo", ".", "backup_info">>,
                                       updated |-> "garbage"]>>,
                        objErr |-> oe]>>,
      sqlListErr |-> se,
      gcpInstances |-> <<[name |-> 1, enabled |-> TRUE,
                          runs |-> <<[id |-> 1, enqueuedTime |-> 2],
                                     [id |-> 2, enqueuedTime |-> 1]>>,
                          runsErr |-> re]>>] :
        be \in BOOLEAN, oe \in BOOLEAN, se \in BOOLEAN, re \in BOOLEAN}

\* the loop of the backups command over up to MaxProjects filtered projects
InitBackups ==
    /\ AppIdle
    /\ FilterIdle
    /\ LiveIdle
    /\ DisplayIdle
    /\ backupKey = "backup"
    /\ within = DefaultWithin
    /\ now = 54
    /\ verbose = FALSE
    /\ bucketsErr = FALSE
    /\ gcpBuckets = <<>>
    /\ backupBuckets = <<>>
    /\ stPc = "idle"
    /\ stI = 0
    /\ ingestErr = "none"
    /\ out = {}
    /\ takerCalls = <<>>
    /\ SQLIdle
    /\ \E n \in 0..MaxProjects :
        /\ ourProjects = [k \in 1..n |-> [gcpProject |-> k, env |-> "e1", component |-> "c1"]]
        /\ cloud \in [1..n -> ProjectData]
        /\ runPc = IF n = 0 THEN "done" ELSE "loop"
    /\ runI = 1
    /\ runLog = <<>>
    /\ storageErr = "none"
    /\ ingested = <<>>
    /\ stCalls = 1

NextBackups ==
    \/ RunProject
    \/ StorageList
    \/ StorageBucket
    \/ RunSQL
    \/ SQLList
    \/ SQLInstance
    \/ RunEnd

\* the loop is sequential code and every call of the data source returns
SpecBackups == InitBackups /\ [][NextBackups]_vars /\ WF_vars(NextBackups)

(***************************************************************************)
(* reportProject.IngestStorage called again on the project it has          *)
(* ingested, the data source unchanged.                                    *)
(***************************************************************************)
MaxCalls == 2

StorageAgain ==
    /\ runPc = "idle"
    /\ stPc = "ret"
    /\ stCalls < MaxCalls
    /\ stCalls' = stCalls + 1
    /\ stPc' = "list"
    /\ stI' = 0
    /\ ingestErr' = "nil"
    /\ UNCHANGED <<storageData, backupBuckets, out, takerCalls>>
    /\ UNCHANGED <<cloud, ourProjects, runPc, runI, runLog, storageErr, ingested>>
    /\ UNCHANGED <<appVars, sqlVars, filterVars, liveVars, displayVars>>

NextReingest ==
    \/ StorageList
    \/ StorageBucket
    \/ StorageAgain

SpecReingest == InitStorage /\ [][NextReingest]_vars

(***************************************************************************)
(* filterProjects                                                          *)
(***************************************************************************)
\* the keys of the map[string]bool built from a filter list
FilterMap(list) == {list[k] : k \in 1..Len(list)}

\* the test of one dimension: the filter map has entries and none for the
\* label value of the project
RejectsEmptyFilter(m, value) == value \notin m
Rejects(m, value) == Cardinality(m) # 0 /\ value \notin m

\* the flag ok after the loop over the keys envKey, compKey
Ok(project, a) ==
    /\ ~Rejects(FilterMap(a.envList), MapGet(project.labels, a.envKey))
    /\ ~Rejects(FilterMap(a.components), MapGet(project.labels, a.compKey))

\* the loop over gcpProjects: a project node is appended for every project
\* whose flag is ok
RECURSIVE FilterLoop(_, _)
FilterLoop(gcpProjects, a) ==
    IF gcpProjects = <<>>
    THEN <<>>
    ELSE LET project == Head(gcpProjects) IN
            (IF Ok(project, a)
             THEN <<[gcpProject |-> project.id,
                     env |-> MapGet(project.labels, a.envKey),
                     component |-> MapGet(project.labels, a.compKey)]>>
             ELSE <<>>) \o FilterLoop(Tail(gcpProjects), a)

filterProjects(a) == FilterLoop(a.gcpProjects, a)

FilterCall ==
    /\ fpPc = "call"
    /\ retProjects' = filterProjects(fpArgs)
    /\ fpPc' = "ret"
    /\ UNCHANGED fpArgs
    /\ UNCHANGED <<appVars, storageVars, sqlVars, runVars, liveVars, displayVars>>

\* the label maps of a project: env and component each absent or with one of
\* two values, or the component under another key
ProjectLabels ==
    {f \in UNION {[S -> {"e1", "e2", "foo", "baz"}] : S \in SUBSET {"env", "component"}} :
        /\ "env" \in DOMAIN f => f["env"] \in {"e1", "e2"}
        /\ "component" \in DOMAIN f => f["component"] \in {"foo", "baz"}}
        \cup {[k \in {"env", "altcomponent"} |-> IF k = "env" THEN "e1" ELSE "foo"]}

\* filterProjects on up to MaxProjects projects with an environment filter
\* and a component filter, each empty or not
InitFilter ==
    /\ AppIdle
    /\ StorageIdle
    /\ SQLIdle
    /\ RunIdle
    /\ LiveIdle
    /\ DisplayIdle
    /\ \E n \in 0..MaxProjects :
        \E labels \in [1..n -> ProjectLabels],
           envList \in {<<>>, <<"e1">>, <<"e2", "e1">>, <<"">>},
           components \in {<<>>, <<"foo", "bar">>, <<"bar">>},
           compKey \in {"component", "altcomponent"} :
            fpArgs = [gcpProjects |-> [k \in 1..n |-> [id |-> k, labels |-> labels[k]]],
                      components |-> components, envList |-> envList,
                      envKey |-> "env", compKey |-> compKey]
    /\ retProjects = <<>>
    /\ fpPc = "call"

NextFilter == FilterCall

SpecFilter == InitFilter /\ [][NextFilter]_vars

(***************************************************************************)
(* The live Takers: each operation makes one remote call (Do) and turns    *)
(* its response and error into the result of the operation. A failed       *)
(* remote call has a nil response.                                         *)
(***************************************************************************)
MaxItems == 3

NilResponse == [nil |-> TRUE, items |-> <<>>]
Response(items) == [nil |-> FALSE, items |-> items]

\* what an operation does: it returns a list and an error, or it faults on a
\* nil pointer dereference
Returns(items, err) == [fault |-> FALSE, items |-> items, err |-> err]
Fault == [fault |-> TRUE, items |-> <<>>, err |-> "nil"]

\* reading a field of the response
Deref(resp, err) == IF resp.nil THEN Fault ELSE Returns(resp.items, err)

\* the pattern of six of the operations: the response is read if the error
\* of the remote call is nil, the error is returned otherwise
ReadIfNoError(resp, callErr) ==
    IF callErr = "nil" THEN Deref(resp, callErr) ELSE Returns(<<>>, callErr)

\* TakerGCP.ListServices: the test `err == nil` is on the named return value,
\* nil at this point, not on serr: the response is read whatever serr is
GCPListServices(serviceResponse, serr) ==
    LET err == "nil" IN
        IF err = "nil" THEN Deref(serviceResponse, serr) ELSE Returns(<<>>, serr)

GCPListVersionInstances(instancesResponse, instanceErr) ==
    ReadIfNoError(instancesResponse, instanceErr)
GCPListVersions(listResponse, listErr) == ReadIfNoError(listResponse, listErr)
GCPListObjects(objResponse, objErr) == ReadIfNoError(objResponse, objErr)
GCPListBuckets(objResponse, objErr) == ReadIfNoError(objResponse, objErr)
GCPListSQLInstances(sqlInstanceResponse, silErr) ==
    ReadIfNoError(sqlInstanceResponse, silErr)
GCPListBackupRuns(backupResponse, backupErr) == ReadIfNoError(backupResponse, backupErr)

LiveOps ==
    {"ListServices", "ListVersionInstances", "ListVersions", "ListObjects",
     "ListBuckets", "ListSQLInstances", "ListBackupRuns"}

LiveResult(op, resp, err) ==
    CASE op = "ListServices" -> GCPListServices(resp, err)
      [] op = "ListVersionInstances" -> GCPListVersionInstances(resp, err)
      [] op = "ListVersions" -> GCPListVersions(resp, err)
      [] op = "ListObjects" -> GCPListObjects(resp, err)
      [] op = "ListBuckets" -> GCPListBuckets(resp, err)
      [] op = "ListSQLInstances" -> GCPListSQLInstances(resp, err)
      [] op = "ListBackupRuns" -> GCPListBackupRuns(resp, err)

\* one operation is called and returns, or faults
LiveCall(op) ==
    /\ livePc = "call"
    /\ liveOp' = op
    /\ liveRet' = LiveResult(op, liveResp, liveErr)
    /\ livePc' = "ret"
    /\ UNCHANGED <<liveResp, liveErr>>
    /\ UNCHANGED <<appVars, storageVars, sqlVars, runVars, filterVars, displayVars>>

\* the lists a remote call can answer with
ItemLists == UNION {[1..n -> 1..MaxItems] : n \in 0..MaxItems}

\* the remote call either succeeds with a response or fails with a nil
\* response and an error
InitLive ==
    /\ AppIdle
    /\ StorageIdle
    /\ SQLIdle
    /\ RunIdle
    /\ FilterIdle
    /\ DisplayIdle
    /\ \/ \E items \in ItemLists : liveResp = Response(items) /\ liveErr = "nil"
       \/ liveResp = NilResponse /\ liveErr \in {"Transport", "Forbidden"}
    /\ liveOp = "none"
    /\ liveRet = <<>>
    /\ livePc = "call"

NextLive == \E op \in LiveOps : LiveCall(op)

SpecLive == InitLive /\ [][NextLive]_vars

(***************************************************************************)
(* reportProject.Display on the tree reportProject.Ingest left: the        *)
(* application if there is one, then every service with a range of its     *)
(* versions.                                                               *)
(***************************************************************************)
max(i1, i2) == IF i1 > i2 THEN i1 ELSE i2

\* the high bound of the range rs.versions[0:limit] of a service that holds
\* n versions
DisplayLimit(n, verb) ==
    LET limit == max(1, n - 2) IN
        IF verb THEN n
        ELSE IF limit > 2 THEN 3
        ELSE limit

\* reportProject.Display and the head of reportApplication.Display
DisplayProject ==
    /\ dPc = "idle"
    /\ pPc = "done"
    /\ IF application = NilNode
       THEN /\ dPc' = "done"
            /\ UNCHANGED dS
       ELSE /\ dS' = 1
            /\ dPc' = IF Len(services) = 0 THEN "done" ELSE "service"
    /\ UNCHANGED displayed
    /\ UNCHANGED <<appVars, storageVars, sqlVars, runVars, filterVars, liveVars>>

\* reportService.Display of the next service: the slice expression faults
\* (slice bounds out of range) when limit is beyond the versions the service
\* holds, a service that never appended a version having a nil list
DisplayService ==
    /\ dPc = "service"
    /\ LET rs == services[dS]
           limit == DisplayLimit(Len(versions[rs]), verbose)
       IN IF limit > Len(versions[rs])
          THEN /\ dPc' = "fault"
               /\ UNCHANGED <<dS, displayed>>
          ELSE /\ displayed' = Append(displayed, [service |-> rs, limit |-> limit,
                                                  versions |-> SubSeq(versions[rs], 1, limit)])
               /\ dS' = dS + 1
               /\ dPc' = IF dS = Len(services) THEN "done" ELSE "service"
    /\ UNCHANGED <<appVars, storageVars, sqlVars, runVars, filterVars, liveVars>>

\* the project is ingested and displayed, in verbose or non-verbose mode:
\* the data source of InitFair
InitDisplay ==
    /\ appOutcome \in {"ok", "notfound", "fail"}
    /\ nServices \in 0..MaxServices
    /\ \E n \in 0..MaxVersions :
        vlist = [s \in Services |->
                    IF s <= nServices
                    THEN [i \in 1..FixtureLen(n, 1, s) |-> FixtureTime(i)]
                    ELSE <<>>]
    /\ icount = [v \in VersionIds |-> FixtureCount(v)]
    /\ failing \in {{}} \cup {{l} : l \in Askable(nServices, vlist)}
    /\ versionLimit \in 0..MaxLimit
    /\ TreeInit
    /\ UnitInit
    /\ calls = [l \in AllLookups |-> 0]
    /\ backupKey = "backup"
    /\ within = DefaultWithin
    /\ now = 0
    /\ verbose \in BOOLEAN
    /\ bucketsErr = FALSE
    /\ gcpBuckets = <<>>
    /\ backupBuckets = <<>>
    /\ stPc = "idle"
    /\ stI = 0
    /\ ingestErr = "none"
    /\ out = {}
    /\ takerCalls = <<>>
    /\ SQLIdle
    /\ RunIdle
    /\ FilterIdle
    /\ LiveIdle
    /\ DisplayIdle

NextDisplay ==
    \/ Next
    \/ DisplayProject
    \/ DisplayService

SpecDisplay == InitDisplay /\ [][NextDisplay]_vars

(***************************************************************************)
(* Properties of the storage ingestion.                                    *)
(***************************************************************************)
\* the bucket nodes created so far, with the listed bucket of each
NodeIdx == 1..Len(backupBuckets)
BucketOf(node) == gcpBuckets[node.gcpBucket]
HasLine(kind, b) == \E l \in out : l.line = kind /\ l.bucket = b

\* C6: the node reportProject.IngestStorage creates for a bucket has
\* isBackup true exactly when the label map of the bucket has the configured
\* backup-label key with the value "true".
C6_IsBackupIffTrue ==
    /\ stPc = "ret" /\ ~bucketsErr => Len(backupBuckets) = Len(gcpBuckets)
    /\ \A k \in NodeIdx :
        /\ backupBuckets[k].gcpBucket = k
        /\ backupBuckets[k].isBackup <=>
            (backupKey \in DOMAIN gcpBuckets[k].labels /\ gcpBuckets[k].labels[backupKey] = "true")

\* C6 witness: a bucket labelled "true" under the configured key with a node
\* that is a backup bucket, and a bucket labelled "yes" with a node that is
\* not.
C6_Witness ==
    /\ stPc = "ret"
    /\ Len(backupBuckets) = 2
    /\ backupBuckets[1].isBackup
    /\ ~backupBuckets[2].isBackup
    /\ MapGet(gcpBuckets[2].labels, backupKey) = "yes"

\* C7 as stated: the kind map of a backup bucket holds no object whose
\* identifier does not match the pattern, and every sequence of the map is
\* strictly descending in update time.
C7_StrictlyDescending ==
    \A k \in NodeIdx : backupBuckets[k].isBackup =>
        LET kindMap == backupBuckets[k].kindMap IN
            \A kind \in DOMAIN kindMap :
                /\ \A i \in 1..Len(kindMap[kind]) :
                    /\ KindMatches(kindMap[kind][i].gcpObject.id) # {}
                    /\ kindMap[kind][i].kind # <<>>
                /\ \A i, j \in 1..Len(kindMap[kind]) :
                    i < j => kindMap[kind][i].updateTime > kindMap[kind][j].updateTime

\* C7 amended: the kind map of a backup bucket holds no object whose
\* identifier does not match the pattern, and in every sequence of the map no
\* object comes after an object with an earlier update time (descending,
\* objects with equal update times in any order).
C7_Descending ==
    \A k \in NodeIdx : backupBuckets[k].isBackup =>
        LET kindMap == backupBuckets[k].kindMap IN
            \A kind \in DOMAIN kindMap :
                /\ \A i \in 1..Len(kindMap[kind]) :
                    /\ KindMatches(kindMap[kind][i].gcpObject.id) # {}
                    /\ kindMap[kind][i].kind # <<>>
                /\ \A i, j \in 1..Len(kindMap[kind]) :
                    i < j => kindMap[kind][i].updateTime >= kindMap[kind][j].updateTime

\* C7 witness: the listing has an older object first; the bucket holds an
\* object without a kind and, under kind foo, a newer object before an older.
C7_Witness ==
    /\ stPc = "ret"
    /\ Len(backupBuckets) = 1
    /\ Len(gcpBuckets[1].objects) = 3
    /\ ParseTime(gcpBuckets[1].objects[1].updated).time
        < ParseTime(gcpBuckets[1].objects[3].updated).time
    /\ \E i \in 1..Len(backupBuckets[1].objects) : backupBuckets[1].objects[i].kind = <<>>
    /\ <<"foo">> \in DOMAIN backupBuckets[1].kindMap
    /\ Len(backupBuckets[1].kindMap[<<"foo">>]) = 2
    /\ backupBuckets[1].kindMap[<<"foo">>][1].updateTime
        > backupBuckets[1].kindMap[<<"foo">>][2].updateTime

\* C8: reportProject.IngestStorageInfo flags a labelled bucket stale exactly
\* when its Updated does not parse or now minus Updated is greater than the
\* interval, and fresh otherwise (also when the age equals the interval); a
\* bucket without the label is not flagged.
C8_StaleIffOlder ==
    \A k \in 1..Len(gcpBuckets) :
        LET b == gcpBuckets[k]
            labelled == backupKey \in DOMAIN b.labels /\ b.labels[backupKey] # ""
            old == \/ b.updated = "garbage"
                   \/ now - ParseTime(b.updated).time > within
        IN IF stPc = "ret" \/ k < stI
           THEN /\ HasLine("stale", k) <=> (labelled /\ old)
                /\ HasLine("fresh", k) <=> (labelled /\ ~old)
           ELSE ~HasLine("stale", k) /\ ~HasLine("fresh", k)

\* C8 witness: with the interval at 24 hours, a bucket updated 30 hours ago
\* is flagged stale and a bucket updated exactly 24 hours ago is flagged
\* fresh.
C8_Witness ==
    /\ stPc = "ret"
    /\ within = 24
    /\ Len(gcpBuckets) = 2
    /\ now - ParseTime(gcpBuckets[1].updated).time = 30
    /\ now - ParseTime(gcpBuckets[2].updated).time = 24
    /\ HasLine("stale", 1)
    /\ HasLine("fresh", 2)

\* C9: after reportProject.IngestStorage, every backup bucket of the project
\* is flagged stale when its Updated does not parse or is older than now
\* minus the interval, and fresh otherwise.
C9_StorageFlagsStaleness ==
    (stPc = "ret" /\ ~bucketsErr) =>
        \A k \in NodeIdx : backupBuckets[k].isBackup =>
            IF IsStale(BucketOf(backupBuckets[k]))
            THEN HasLine("stale", backupBuckets[k].gcpBucket)
            ELSE HasLine("fresh", backupBuckets[k].gcpBucket)

\* C14: reportProject.IngestStorage returns an error when ListBuckets fails
\* or the object listing of at least one backup bucket fails, wherever the
\* failing bucket is in the listing.
C14_AnyFailureReturned ==
    (/\ stPc = "ret"
     /\ \/ bucketsErr
        \/ \E k \in 1..Len(gcpBuckets) : IsBackup(gcpBuckets[k]) /\ gcpBuckets[k].objErr) =>
        ingestErr # "nil"

\* the object nodes of a bucket whose listing succeeded: one node per listed
\* object, sorted
IngestedObjects(gcpBucket) ==
    SortResults([k \in 1..Len(gcpBucket.objects) |-> NewObject(gcpBucket.objects[k])])

\* C15: a failure is returned together with the tree built so far. When
\* ListServices fails, reportProject.Ingest returns the error and the project
\* holds its application node. In reportProject.IngestStorage every listed
\* bucket has its node, also the buckets whose object listing failed and the
\* buckets listed after one, and the node of a backup bucket whose listing
\* succeeded holds its objects and its kind map whatever happens to the
\* other buckets.
C15_ErrorAlongsideTree ==
    /\ (pPc = "done" /\ appOutcome = "ok" /\ Lookup("ListServices", 0, 0) \in failing) =>
        /\ pErr = "Transport"
        /\ application = [gcpApplication |-> "app"]
    /\ (stPc = "ret" /\ ~bucketsErr) => Len(backupBuckets) = Len(gcpBuckets)
    /\ \A k \in NodeIdx :
        /\ backupBuckets[k] # NilNode
        /\ backupBuckets[k].gcpBucket = k
        /\ IF IsBackup(gcpBuckets[k]) /\ ~gcpBuckets[k].objErr
           THEN /\ backupBuckets[k].objects \in IngestedObjects(gcpBuckets[k])
                /\ backupBuckets[k].kindMap = KindMapOf(backupBuckets[k].objects)
           ELSE /\ backupBuckets[k].objects = <<>>
                /\ backupBuckets[k].kindMap = <<>>

\* C15 witness: the object listing of the second of two backup buckets
\* failed; IngestStorage has returned the error, and the project holds both
\* bucket nodes, the first with its three objects and its kind map.
C15_Witness ==
    /\ stPc = "ret"
    /\ ingestErr = "Transport"
    /\ Len(backupBuckets) = 2
    /\ backupBuckets[1].isBackup
    /\ backupBuckets[2].isBackup
    /\ gcpBuckets[2].objErr
    /\ Len(backupBuckets[1].objects) = 3
    /\ DOMAIN backupBuckets[1].kindMap = {<<"foo">>}

(***************************************************************************)
(* Properties of the backups command, the database side and the parents.   *)
(***************************************************************************)
\* the calls the loop makes when no project is skipped
ExpectedLog ==
    [j \in 1..(2 * Len(ourProjects)) |->
        <<IF j % 2 = 1 THEN "IngestStorage" ELSE "IngestSQLInstances",
          ourProjects[(j + 1) \div 2].gcpProject>>]

\* C13: the loop of the backups command calls IngestStorage and then
\* IngestSQLInstances once for every filtered project, in the order of the
\* list, whatever the calls before returned, and it reaches its end.
C13_EveryProjectIngested ==
    /\ [](/\ Len(runLog) <= Len(ExpectedLog)
          /\ runLog = SubSeq(ExpectedLog, 1, Len(runLog))
          /\ runPc = "done" => runLog = ExpectedLog)
    /\ <>(runPc = "done")

\* C13 witness: both ingestions of the first of two projects failed and the
\* loop has ended after the four calls.
C13_Witness ==
    /\ runPc = "done"
    /\ Len(ourProjects) = 2
    /\ cloud[1].bucketsErr
    /\ cloud[1].sqlListErr
    /\ \E l \in out : l.line = "at least some GCP info cannot be ingested" /\ l.project = 1
    /\ Len(runLog) = 4
    /\ Len(ingested[2].backupBuckets) = 1

\* C16: reportProject.IngestStorage run again on the project it has already
\* ingested, the data source unchanged, leaves the project with one node per
\* listed bucket, as after the first run.
C16_Idempotent ==
    (stPc = "ret" /\ ~bucketsErr) =>
        \A b \in 1..Len(gcpBuckets) :
            Cardinality({k \in NodeIdx : backupBuckets[k].gcpBucket = b}) = 1

\* the runs printed for the instance with the name given
Printed(name) == {l.run : l \in {m \in out : m.line = "backup" /\ m.instance = name}}

\* C18: for an ingested instance with backups enabled whose runs were
\* listed, min(3, number of runs) runs are printed and no run left out was
\* enqueued after a printed one.
C18_ThreeMostRecent ==
    \A k \in 1..Len(sqlInstances) :
        LET g == gcpInstances[sqlInstances[k].gcpSQLInstance] IN
            (g.enabled /\ ~g.runsErr) =>
                /\ Cardinality(Printed(g.name)) = Min(3, Len(g.runs))
                /\ \A d \in Printed(g.name) : \A j \in 1..Len(g.runs) :
                    g.runs[j] \notin Printed(g.name) =>
                        g.runs[j].enqueuedTime <= d.enqueuedTime

\* C19: every bucket node and every database instance node of a project has
\* its parent set. (The application, service, version and instance nodes are
\* created with their parent: a version <<s, i>> is held by service s only,
\* an instance <<s, i, k>> by version <<s, i>> only.)
C19_ParentSet ==
    /\ \A k \in NodeIdx : backupBuckets[k].project # NilNode
    /\ \A k \in 1..Len(sqlInstances) : sqlInstances[k].project # NilNode
    /\ \A s \in Services : \A v \in VersionsOf(s) : v[1] = s
    /\ \A v \in VersionIds : \A k \in 1..Len(instances[v]) :
        <<instances[v][k][1], instances[v][k][2]>> = v

\* the positions of the projects that pass the filter list of each
\* dimension: the list is empty or holds the label value of the project
Passing ==
    {k \in 1..Len(fpArgs.gcpProjects) :
        /\ \/ fpArgs.envList = <<>>
           \/ \E j \in 1..Len(fpArgs.envList) :
                fpArgs.envList[j] = MapGet(fpArgs.gcpProjects[k].labels, fpArgs.envKey)
        /\ \/ fpArgs.components = <<>>
           \/ \E j \in 1..Len(fpArgs.components) :
                fpArgs.components[j] = MapGet(fpArgs.gcpProjects[k].labels, fpArgs.compKey)}

\* C17: filterProjects returns one node for every project that passes both
\* filter lists and for no other, in the order of the input, each node with
\* the values of the environment label and the component label of its
\* project.
C17_FilterKeeps ==
    fpPc = "ret" =>
        /\ {retProjects[i].gcpProject : i \in 1..Len(retProjects)} = Passing
        /\ \A i, j \in 1..Len(retProjects) :
            i < j => retProjects[i].gcpProject < retProjects[j].gcpProject
        /\ \A i \in 1..Len(retProjects) :
            LET project == fpArgs.gcpProjects[retProjects[i].gcpProject] IN
                /\ retProjects[i].env = MapGet(project.labels, fpArgs.envKey)
                /\ retProjects[i].component = MapGet(project.labels, fpArgs.compKey)

\* C17 witness: with the component filter {foo, bar} and no environment
\* filter, the first project (component baz) is dropped and the second
\* (component foo) is kept.
C17_Witness ==
    /\ fpPc = "ret"
    /\ fpArgs.components = <<"foo", "bar">>
    /\ fpArgs.envList = <<>>
    /\ Len(fpArgs.gcpProjects) = 2
    /\ MapGet(fpArgs.gcpProjects[1].labels, fpArgs.compKey) = "baz"
    /\ Len(retProjects) = 1
    /\ retProjects[1].gcpProject = 2
    /\ retProjects[1].component = "foo"

\* how many times the lookup was issued
Issued(op, s, i) == calls[Lookup(op, s, i)]

\* C21: no lookup is issued twice, and once reportProject.Ingest has
\* returned GetApplication was issued once, ListServices once when there is
\* an application, ListVersions once for every listed service, and
\* ListVersionInstances once for every version among the first
\* min(N, versionLimit) of a listing and for no other; nothing is issued
\* below a listing that failed.
C21_OneLookupPerNode ==
    /\ \A l \in AllLookups : calls[l] <= 1
    /\ pPc = "done" =>
        /\ Issued("GetApplication", 0, 0) = 1
        /\ Issued("ListServices", 0, 0) = IF appOutcome = "ok" THEN 1 ELSE 0
        /\ \A s \in Services :
            Issued("ListVersions", s, 0) =
                IF /\ appOutcome = "ok"
                   /\ Lookup("ListServices", 0, 0) \notin failing
                   /\ s <= nServices
                THEN 1 ELSE 0
        /\ \A v \in VersionIds :
            Issued("ListVersionInstances", v[1], v[2]) =
                IF /\ Issued("ListVersions", v[1], 0) = 1
                   /\ Lookup("ListVersions", v[1], 0) \notin failing
                   /\ v[2] <= Min(Len(vlist[v[1]]), versionLimit)
                THEN 1 ELSE 0

\* C21 witness: of two services with two versions each and a limit of one,
\* the first failed to list its versions; one instance listing was issued,
\* for the one version retained by the second service.
C21_Witness ==
    /\ pPc = "done"
    /\ nServices = 2
    /\ Len(vlist[1]) = 2
    /\ Len(vlist[2]) = 2
    /\ versionLimit = 1
    /\ failing = {Lookup("ListVersions", 1, 0)}
    /\ Issued("ListVersions", 1, 0) = 1
    /\ Issued("ListVersionInstances", 2, 1) = 1
    /\ Issued("ListVersionInstances", 2, 2) = 0
    /\ Issued("ListVersionInstances", 1, 1) = 0

\* the completion tokens a service goroutine can send
Tokens == {<<"app", s>> : s \in Services}

\* C22: in every step, app.services changes only by an append made by
\* reportApplication.Ingest in its listing loop, versions[s] only by an
\* append made by reportService.Ingest of s in its loop, and instances[v]
\* only by reportVersion.Ingest of v, which then has finished; no step writes
\* two lists, and what was taken from the completion channel are tokens.
C22_SingleWriter ==
    /\ [][/\ services' # services =>
                /\ aPc = "spawn"
                /\ \E s \in Services : services' = Append(services, s)
          /\ \A s \in Services : versions'[s] # versions[s] =>
                /\ sPc[s] = "spawn"
                /\ \E v \in VersionIds : versions'[s] = Append(versions[s], v)
          /\ \A v \in VersionIds : instances'[v] # instances[v] =>
                /\ vPc[v] = "run"
                /\ vPc'[v] = "send"
          /\ Cardinality({s \in Services : versions'[s] # versions[s]}
                            \cup {v \in VersionIds : instances'[v] # instances[v]}
                            \cup (IF services' # services THEN {"services"} ELSE {})) <= 1]_vars
    /\ [](\A k \in 1..Len(aTokens) : aTokens[k] \in Tokens)

\* C22 witness: the two versions of a service, each with an instance to
\* list, run at the same time while the second service is still in its loop.
C22_Witness ==
    /\ vPc[<<1, 1>>] = "run"
    /\ vPc[<<1, 2>>] = "run"
    /\ sPc[2] = "spawn"
    /\ icount[<<1, 2>>] = 1

\* C23: a version whose creation time does not parse is created like any
\* other and its instances are listed, an object whose update time does not
\* parse is held by its bucket, and in the versions of a service, the
\* objects of a bucket and every sequence of a kind map no node with a time
\* comes after a node whose time did not parse.
C23_UnparseableLast ==
    /\ \A s \in Services :
        (ServiceReturned(s) /\ sErr[s] = "nil") =>
            /\ Len(versions[s]) = Min(Len(vlist[s]), versionLimit)
            /\ \A v \in VersionsOf(s) : calls[Lookup("ListVersionInstances", v[1], v[2])] = 1
            /\ \A i, j \in 1..Len(versions[s]) :
                (i < j /\ deployTime[versions[s][i]] = ZeroTime) =>
                    deployTime[versions[s][j]] = ZeroTime
    /\ \A k \in NodeIdx :
        (backupBuckets[k].isBackup /\ ~gcpBuckets[k].objErr) =>
            /\ Len(backupBuckets[k].objects) = Len(gcpBuckets[k].objects)
            /\ \A i, j \in 1..Len(backupBuckets[k].objects) :
                (i < j /\ backupBuckets[k].objects[i].updateTime = ZeroTime) =>
                    backupBuckets[k].objects[j].updateTime = ZeroTime

\* the number of places of seq that hold x
Count(seq, x) == Cardinality({i \in 1..Len(seq) : seq[i] = x})

\* C24: the node of a backup bucket whose objects were listed holds one
\* object node per listed object, each with the kind its identifier gives or
\* none; every key of the kind map is a kind with a non-empty sequence of
\* objects of that kind, an object with a kind is in the sequence of its
\* kind as often as in the object list and in no other sequence, and an
\* object without a kind is in no sequence.
C24_RawListAndPartition ==
    \A k \in NodeIdx :
        (backupBuckets[k].isBackup /\ ~gcpBuckets[k].objErr) =>
            LET objects == backupBuckets[k].objects
                listed == gcpBuckets[k].objects
                kindMap == backupBuckets[k].kindMap
            IN /\ Len(objects) = Len(listed)
               /\ \A i \in 1..Len(listed) :
                    Cardinality({j \in 1..Len(objects) : objects[j].gcpObject = listed[i]})
                        = Count(listed, listed[i])
               /\ \A j \in 1..Len(objects) :
                    objects[j].kind = DatastoreGleanMeta(objects[j].gcpObject.id)
               /\ \A kind \in DOMAIN kindMap :
                    /\ kind # <<>>
                    /\ Len(kindMap[kind]) >= 1
                    /\ \A j \in 1..Len(kindMap[kind]) : kindMap[kind][j].kind = kind
               /\ \A j \in 1..Len(objects) : \A kind \in DOMAIN kindMap :
                    Count(kindMap[kind], objects[j]) =
                        IF kind = objects[j].kind THEN Count(objects, objects[j]) ELSE 0
               /\ \A j \in 1..Len(objects) :
                    objects[j].kind # <<>> => objects[j].kind \in DOMAIN kindMap

\* C24 witness: three objects were listed, of kind foo, of kind bar and
\* without a kind; the bucket holds the three and its kind map the two
\* kinds.
C24_Witness ==
    /\ stPc = "ret"
    /\ Len(backupBuckets) = 1
    /\ Len(backupBuckets[1].objects) = 3
    /\ \E j \in 1..3 : backupBuckets[1].objects[j].kind = <<>>
    /\ DOMAIN backupBuckets[1].kindMap = {<<"foo">>, <<"bar">>}


\* C25: reportProject.IngestStorage lists the objects of backup buckets only.
\* ListObjects is called once for every backup bucket that has its node, in
\* the order of the bucket listing and also after a bucket whose object
\* listing failed, and never for a bucket whose isBackup is false; such a
\* bucket keeps an empty object list and an empty kind map; when the bucket
\* listing succeeded every listed bucket has been visited at the return.
C25_ObjectsOnlyForBackups ==
    /\ \A k \in 1..MaxBuckets :
        Count(takerCalls, <<"ListObjects", k>>) =
            IF k \in NodeIdx /\ backupBuckets[k].isBackup THEN 1 ELSE 0
    /\ \A n \in 1..Len(takerCalls) :
        /\ takerCalls[n][1] = "ListObjects"
        /\ n > 1 => takerCalls[n - 1][2] < takerCalls[n][2]
    /\ \A k \in NodeIdx : ~backupBuckets[k].isBackup =>
        /\ backupBuckets[k].objects = <<>>
        /\ backupBuckets[k].kindMap = <<>>
    /\ (stPc = "ret" /\ ~bucketsErr) => Len(backupBuckets) = Len(gcpBuckets)

\* C25 witness: the call has returned; the object listing of the first
\* bucket, a backup bucket, failed, and the objects of the second, a backup
\* bucket too, were listed after it and are in its node.
C25_Witness ==
    /\ stPc = "ret"
    /\ Len(backupBuckets) = 2
    /\ backupBuckets[1].isBackup /\ gcpBuckets[1].objErr
    /\ backupBuckets[2].isBackup /\ ~gcpBuckets[2].objErr
    /\ backupBuckets[2].objects # <<>>
    /\ takerCalls = << <<"ListObjects", 1>>, <<"ListObjects", 2>> >>

\* C26: reportProject.IngestSQLInstances requests the backup runs of the
\* instances with backups enabled only, once each; whatever ListBackupRuns
\* returns, the instances are recorded in listing order, all of them by the
\* return when ListSQLInstances succeeded, and the call returns an error
\* exactly when ListSQLInstances failed.
C26_RunFailureNotFatal ==
    /\ \A k \in 1..MaxSQLInstances :
        Count(takerCalls, <<"ListBackupRuns", k>>) =
            IF k <= Len(sqlInstances) /\ gcpInstances[k].enabled THEN 1 ELSE 0
    /\ \A k \in 1..Len(sqlInstances) : sqlInstances[k].gcpSQLInstance = k
    /\ (sqlPc = "ret" /\ ~sqlListErr) =>
        /\ Len(sqlInstances) = Len(gcpInstances)
        /\ sqlErr = "nil"
    /\ sqlPc = "ret" => (sqlErr # "nil" <=> sqlListErr)

\* C26 witness: the call has returned without an error and both instances
\* are recorded; the run listing of the first, with backups enabled, failed,
\* and the second, with backups enabled too, has no runs.
C26_Witness ==
    /\ sqlPc = "ret"
    /\ sqlErr = "nil"
    /\ Len(sqlInstances) = 2
    /\ gcpInstances[1].enabled /\ gcpInstances[1].runsErr
    /\ gcpInstances[2].enabled /\ ~gcpInstances[2].runsErr /\ gcpInstances[2].runs = <<>>
    /\ sqlInstances[2].backupRuns = <<>>
    /\ takerCalls = << <<"ListBackupRuns", 1>>, <<"ListBackupRuns", 2>> >>

\* C27: no operation of a live Taker faults; when the remote call fails the
\* operation returns the error of the call with an empty result, and when it
\* succeeds the items of the response with no error.
C27_ExplicitFailure ==
    livePc = "ret" =>
        /\ ~liveRet.fault
        /\ liveRet.err = liveErr
        /\ liveRet.items = liveResp.items

\* a lookup of the unit has not returned, or the unit is still at work
ServiceBusy(s) == sPc[s] \in {"list", "spawn", "wait"}
VersionBusy(v) == vPc[v] = "run"

FinalApplication == IF appOutcome = "ok" THEN [gcpApplication |-> GetApplication.app] ELSE NilNode
FinalServices == IF appOutcome = "ok" THEN ListServices.items ELSE <<>>
FinalVersions(s) ==
    IF (\E k \in 1..Len(FinalServices) : FinalServices[k] = s) /\ ListVersions(s).err = "nil"
    THEN ExpectedVersions(s)
    ELSE <<>>
FinalHeld(v) == \E k \in 1..Len(FinalVersions(v[1])) : FinalVersions(v[1])[k] = v
FinalDeployTime(v) == IF FinalHeld(v) THEN ParseTime(vlist[v[1]][v[2]]).time ELSE ZeroTime
FinalInstances(v) == IF FinalHeld(v) THEN ListVersionInstances(v).items ELSE <<>>
FinalErr == IF appOutcome = "ok" THEN ListServices.err ELSE GetApplication.err

\* C29: schedule independence. Whatever the interleaving of the service and
\* version units and the order in which their tokens arrive, once
\* reportProject.Ingest has returned the tree (the services in order, the
\* versions of each service in order with their deploy time, the instances
\* of each version in order) and the returned error are the ones the data
\* source and versionLimit determine.
C29_ScheduleIndependent ==
    pPc = "done" =>
        /\ application = FinalApplication
        /\ services = FinalServices
        /\ versions = [s \in Services |-> FinalVersions(s)]
        /\ deployTime = [v \in VersionIds |-> FinalDeployTime(v)]
        /\ instances = [v \in VersionIds |-> FinalInstances(v)]
        /\ pErr = FinalErr

\* C29 witness: reportProject.Ingest has returned; the second service, listed
\* after the first, finished before it, and both hold versions, one of them
\* with an instance.
C29_Witness ==
    /\ pPc = "done"
    /\ services = <<1, 2>>
    /\ aTokens[1][2] = 2
    /\ Len(versions[1]) >= 2
    /\ Len(versions[2]) >= 1
    /\ \E v \in VersionIds : Len(instances[v]) >= 1

\* C30: reportService.Display never reads past the end of svc.versions: for
\* every service of an ingested tree, a service with zero versions included,
\* in verbose and in non-verbose mode, the range it selects lies within the
\* versions the service holds and Display does not fault.
C30_DisplayInRange ==
    /\ dPc # "fault"
    /\ \A k \in 1..Len(displayed) :
        displayed[k].limit <= Len(versions[displayed[k].service])

============================================================================
